---- MODULE Spec2Model ----
(***************************************************************************)
(* NFL playoff scenario calculator (robbrotherton/nfl-pickem).             *)
(*                                                                         *)
(* The model follows the modular front end (public/modules/*.js and        *)
(* public/tiebreakers.js): standings and tiebreaker records feed the       *)
(* seeding resolver calculatePlayoffTeams; identifyCriticalGames filters   *)
(* the remaining schedule; simulateScenario applies an outcome assignment; *)
(* runMonteCarloSimulation and the best/worst case searches drive it.      *)
(*                                                                         *)
(* Numbers: a win percentage is the exact fraction <<n, d>> = n/d that the *)
(* JavaScript double approximates; d = 0 stands for NaN (0/0).  The        *)
(* epsilon comparisons of the source (0.0001, 0.001) are made on the exact *)
(* fractions.  Array.prototype.sort is V8's: for arrays shorter than 64    *)
(* elements one run is counted and the rest is binary insertion.           *)
(***************************************************************************)
EXTENDS Integers, Sequences, FiniteSets, TLC

(***************************************************************************)
(* Bounds of the model (not program constants).                            *)
(***************************************************************************)
\* number of completed games of CompletedSchedule whose result is free
OpenResults == 7

(***************************************************************************)
(* League structure: a reduced DIVISION_MAP (18 of the 32 clubs), both     *)
(* conferences with four divisions and at least seven clubs.  TeamOrder    *)
(* holds the clubs whose abbreviation is the same in ESPN's data, in the   *)
(* client's DIVISION_MAP and in the server's TEAM_INFO; Washington is WSH  *)
(* for ESPN and in DIVISION_MAP (constants.js) and WAS in TEAM_INFO and    *)
(* TEAM_NAME_TO_ABBR (server.js 350-428).                                  *)
(***************************************************************************)
TeamOrder ==
    << "CHI", "DET", "GB", "ATL", "CAR", "DAL", "NYG", "ARI", "LAR",
       "BAL", "CIN", "HOU", "IND", "BUF", "DEN", "KC", "MIN" >>

Teams == { TeamOrder[i] : i \in 1..Len(TeamOrder) } \cup { "WSH" }

DIVISION_MAP ==
    [ t \in Teams |->
        CASE t \in {"CHI", "DET", "GB", "MIN"} -> "NFC North"
          [] t \in {"ATL", "CAR"}       -> "NFC South"
          [] t \in {"DAL", "NYG", "WSH"} -> "NFC East"
          [] t \in {"ARI", "LAR"}       -> "NFC West"
          [] t \in {"BAL", "CIN"}       -> "AFC North"
          [] t \in {"HOU", "IND"}       -> "AFC South"
          [] t \in {"BUF"}              -> "AFC East"
          [] OTHER                      -> "AFC West" ]

NFCDivisions == {"NFC North", "NFC South", "NFC East", "NFC West"}

\* DIVISION_MAP[team.abbr]?.startsWith('NFC') ? 'NFC' : 'AFC'
getConference(t) == IF DIVISION_MAP[t] \in NFCDivisions THEN "NFC" ELSE "AFC"

\* ESPN's team.id: one id per club
TeamId(t) ==
    IF t = "WSH" THEN Len(TeamOrder) + 1 ELSE CHOOSE i \in 1..Len(TeamOrder) : TeamOrder[i] = t

(***************************************************************************)
(* Exact fractions.                                                        *)
(***************************************************************************)
Abs(x) == IF x < 0 THEN -x ELSE x
Sign(x) == IF x < 0 THEN -1 ELSE IF x > 0 THEN 1 ELSE 0

IsNaN(p) == p[2] = 0

\* (wins + 0.5 * ties) / (wins + losses + ties)
WinPctOf(w, l, t) == << 2 * w + t, 2 * (w + l + t) >>

\* x || 0 for a win percentage: NaN (and null after the JSON copy) become 0
OrZero(p) == IF IsNaN(p) THEN << 0, 1 >> ELSE p

\* sign of a - b for two fractions with positive denominators
RatCmp(a, b) == Sign(a[1] * b[2] - b[1] * a[2])

\* Math.abs(a - b) > en/ed
DiffExceeds(a, b, en, ed) == Abs(a[1] * b[2] - b[1] * a[2]) * ed > en * a[2] * b[2]

\* Math.abs(a - b) < en/ed
DiffBelow(a, b, en, ed) == Abs(a[1] * b[2] - b[1] * a[2]) * ed < en * a[2] * b[2]

(***************************************************************************)
(* Sequence helpers.                                                       *)
(***************************************************************************)
Range(s) == { s[i] : i \in 1..Len(s) }

Reverse(s) == SubSeq([ i \in 1..Len(s) |-> s[Len(s) + 1 - i] ], 1, Len(s))

\* Array.prototype.findIndex(...) + 1 on abbreviations: 0 when absent
RankOf(s, abbr) ==
    IF \E i \in 1..Len(s) : s[i].abbr = abbr
    THEN CHOOSE i \in 1..Len(s) : s[i].abbr = abbr /\ \A j \in 1..(i - 1) : s[j].abbr # abbr
    ELSE 0

\* Array.prototype.map: the values of a function on 1..n as an array
Array(f) == SubSeq(f, 1, Len(f))

\* const v = ...: the value is worked out once and used under a name
With(v, Using(_)) == Using(v)

\* the first comparison of a comparator's steps that decides, 0 when none does
FirstDecided(steps) ==
    IF \A i \in 1..Len(steps) : steps[i] = 0 THEN 0
    ELSE steps[CHOOSE i \in 1..Len(steps) :
                   steps[i] # 0 /\ \A j \in 1..(i - 1) : steps[j] = 0]

RECURSIVE Flatten(_)
Flatten(ss) == IF ss = << >> THEN << >> ELSE Head(ss) \o Flatten(Tail(ss))

(***************************************************************************)
(* State.                                                                  *)
(***************************************************************************)
VARIABLES
    \* state.js
    targetTeam,             \* _targetTeam
    allStandings,           \* _allStandings: sequence of team records
    allGames,               \* _allGames: remaining (not yet played) games
    criticalGames,          \* _criticalGames
    userOutcomes,           \* _userOutcomes: game id -> "home" | "away"
    useWeightedSimulation,  \* _useWeightedSimulation
    currentBestCase,        \* _currentBestCase
    currentWorstCase,       \* _currentWorstCase
    \* tiebreakers.js
    conferenceRecords,
    divisionRecords,
    commonGamesRecords,
    headToHeadRecords,
    \* the call in progress and what it returned
    pc,
    call

records == << conferenceRecords, divisionRecords, commonGamesRecords, headToHeadRecords >>
session == << targetTeam, allStandings, allGames, criticalGames, userOutcomes,
              useWeightedSimulation, currentBestCase, currentWorstCase >>
vars == << session, records, pc, call >>

\* JavaScript's undefined / null
Null == << >>

\* what a call leaves instead of a value when a TypeError is thrown in it and
\* nothing in it catches the error
TypeError == [ error |-> "TypeError" ]

(***************************************************************************)
(* Tiebreaker Records Provider (server.js): the four record maps derived   *)
(* from the completed games, each [home, away, winner]; home and away are  *)
(* the abbreviations of the row, winner is the abbreviation                *)
(* TEAM_NAME_TO_ABBR gives the stored winner, or "" when it gives none.    *)
(* info is the set of the keys of TEAM_INFO.                               *)
(***************************************************************************)
\* server.js 385-428: the keys of TEAM_INFO that name a club of the rows or
\* of the standings.  Its key for Washington, WAS, names none: the rows and
\* the standings say WSH
TEAM_INFO == Teams \ { "WSH" }

\* the rows as the routes read them: home and away are the abbreviations of
\* the row, the winner is TEAM_NAME_TO_ABBR[game.winner] (server.js
\* 350-383), WAS for a win of Washington
StoredRows(games) ==
    Array([ i \in 1..Len(games) |->
        [ games[i] EXCEPT !.winner = IF @ = "WSH" THEN "WAS" ELSE @ ] ])

\* Array.prototype.filter(...).length
Count(counted, Keep(_)) ==
    Cardinality({ countedAt \in 1..Len(counted) : Keep(counted[countedAt]) })

Involves(g, t) == g.home = t \/ g.away = t
Opponent(g, t) == IF g.home = t THEN g.away ELSE g.home

\* GET /api/conference-records and /api/division-records: a game with a
\* club TEAM_INFO lacks is skipped (453, 503); same-conference
\* (same-division) games only
GroupRecord(info, games, t, SameGroup(_, _)) ==
    LET mine == SelectSeq(games, LAMBDA g : /\ Involves(g, t)
                                            /\ g.home \in info
                                            /\ g.away \in info
                                            /\ SameGroup(g.home, g.away))
    IN  [ wins   |-> Count(mine, LAMBDA g : g.winner = t),
          losses |-> Count(mine, LAMBDA g : g.winner = Opponent(g, t)),
          ties   |-> Count(mine, LAMBDA g : g.winner = "") ]

ConferenceRecordsOf(info, games) ==
    [ t \in info |->
        GroupRecord(info, games, t, LAMBDA a, b : getConference(a) = getConference(b)) ]

DivisionRecordsOf(info, games) ==
    [ t \in info |->
        GroupRecord(info, games, t, LAMBDA a, b : DIVISION_MAP[a] = DIVISION_MAP[b]) ]

PairRecord(a, b, w, l, t) ==
    [ team |-> a, opponent |-> b, wins |-> w, losses |-> l, ties |-> t,
      winPct |-> IF w + l + t > 0 THEN WinPctOf(w, l, t) ELSE << 0, 1 >> ]

\* GET /api/head-to-head: every ordered pair of distinct keys of TEAM_INFO,
\* key <<a, b>> for "a_vs_b"; the second key of a pair mirrors the first
HeadToHeadOf(info, games) ==
    [ k \in { p \in info \X info : p[1] # p[2] } |->
        LET direct == SelectSeq(games, LAMBDA g : Involves(g, k[1]) /\ Involves(g, k[2])) IN
        PairRecord(k[1], k[2],
                   Count(direct, LAMBDA g : g.winner = k[1]),
                   Count(direct, LAMBDA g : g.winner = k[2]),
                   Count(direct, LAMBDA g : g.winner = "")) ]

\* 560-571: the opponents are the abbreviations of the rows, in TEAM_INFO or
\* not
OpponentsOf(games, t) ==
    { Opponent(games[i], t) : i \in { j \in 1..Len(games) : Involves(games[j], t) } }

CommonOpponents(games, a, b) ==
    (OpponentsOf(games, a) \cap OpponentsOf(games, b)) \ {a, b}

\* GET /api/common-games: pairs of one division of TEAM_INFO with a common
\* opponent; a game that is neither won by the club nor by the abbreviation
\* of the row of its opponent counts as a tie (587-608)
CommonGamesOf(info, games) ==
    [ k \in { p \in info \X info :
                /\ p[1] # p[2]
                /\ DIVISION_MAP[p[1]] = DIVISION_MAP[p[2]]
                /\ CommonOpponents(games, p[1], p[2]) # {} } |->
        LET co == CommonOpponents(games, k[1], k[2])
            mine == SelectSeq(games, LAMBDA g : Involves(g, k[1]) /\ Opponent(g, k[1]) \in co)
        IN  PairRecord(k[1], k[2],
                       Count(mine, LAMBDA g : g.winner = k[1]),
                       Count(mine, LAMBDA g : g.winner = Opponent(g, k[1])),
                       Count(mine, LAMBDA g : g.winner \notin {g.home, g.away})) ]

Has(map, key) == key \in DOMAIN map

(***************************************************************************)
(* Comparison functions (sign of the number the JavaScript returns).       *)
(***************************************************************************)
\* wins, then losses of a per-team record map; 0 when a record is missing
\* or the two records agree (tiebreakers.js 276-286, 301-311, 330-340)
WinsLossesCmp(map, a, b) ==
    IF Has(map, a.abbr) /\ Has(map, b.abbr)
    THEN IF map[b.abbr].wins # map[a.abbr].wins
         THEN Sign(map[b.abbr].wins - map[a.abbr].wins)
         ELSE Sign(map[a.abbr].losses - map[b.abbr].losses)
    ELSE 0

\* win percentage of a pair-keyed record map, only when both keys exist and
\* the percentages differ by more than 0.001 (tiebreakers.js 264-273, 289-298)
PairPctCmp(map, a, b) ==
    LET k1 == << a.abbr, b.abbr >>
        k2 == << b.abbr, a.abbr >>
    IN  IF Has(map, k1) /\ Has(map, k2) /\ DiffExceeds(map[k2].winPct, map[k1].winPct, 1, 1000)
        THEN RatCmp(map[k2].winPct, map[k1].winPct)
        ELSE 0

mutant_createDivisionTiebreakSort(a, b) ==
    IF DiffExceeds(OrZero(b.winPct), OrZero(a.winPct), 1, 10000)
    THEN RatCmp(OrZero(b.winPct), OrZero(a.winPct))
    ELSE FirstDecided(<< WinsLossesCmp(conferenceRecords, a, b),
                         WinsLossesCmp(divisionRecords, a, b),
                         PairPctCmp(commonGamesRecords, a, b),
                         PairPctCmp(headToHeadRecords, a, b),
                         RatCmp(OrZero(b.winPct), OrZero(a.winPct)) >>)

createDivisionTiebreakSort(a, b) ==
    IF DiffExceeds(OrZero(b.winPct), OrZero(a.winPct), 1, 10000)
    THEN RatCmp(OrZero(b.winPct), OrZero(a.winPct))
    ELSE FirstDecided(<< PairPctCmp(headToHeadRecords, a, b),
                         WinsLossesCmp(divisionRecords, a, b),
                         PairPctCmp(commonGamesRecords, a, b),
                         WinsLossesCmp(conferenceRecords, a, b),
                         RatCmp(OrZero(b.winPct), OrZero(a.winPct)) >>)

createConferenceTiebreakSort(a, b) ==
    IF DiffExceeds(OrZero(b.winPct), OrZero(a.winPct), 1, 10000)
    THEN RatCmp(OrZero(b.winPct), OrZero(a.winPct))
    ELSE FirstDecided(<< WinsLossesCmp(conferenceRecords, a, b),
                         RatCmp(OrZero(b.winPct), OrZero(a.winPct)) >>)

\* playoff-calculator.js 254-261: the basic sort of the wild card pool
WildCardPoolCmp(a, b) ==
    IF DiffExceeds(OrZero(b.winPct), OrZero(a.winPct), 1, 10000)
    THEN RatCmp(OrZero(b.winPct), OrZero(a.winPct))
    ELSE 0

\* part_004 162-173: the head-to-head step of the sort of renderStandings,
\* applied only when the two clubs have met
HeadToHeadPlayedCmp(a, b) ==
    LET k1 == << a.abbr, b.abbr >>
        k2 == << b.abbr, a.abbr >>
    IN  IF /\ Has(headToHeadRecords, k1) /\ Has(headToHeadRecords, k2)
           /\ headToHeadRecords[k1].wins + headToHeadRecords[k1].losses
                + headToHeadRecords[k1].ties > 0
           /\ DiffExceeds(headToHeadRecords[k2].winPct, headToHeadRecords[k1].winPct, 1, 1000)
        THEN RatCmp(headToHeadRecords[k2].winPct, headToHeadRecords[k1].winPct)
        ELSE 0

\* part_004 153-201: the sort of the teams outside the playoffs
NonPlayoffCmp(a, b) ==
    IF DiffExceeds(OrZero(b.winPct), OrZero(a.winPct), 1, 10000)
    THEN RatCmp(OrZero(b.winPct), OrZero(a.winPct))
    ELSE FirstDecided(<< HeadToHeadPlayedCmp(a, b),
                         WinsLossesCmp(conferenceRecords, a, b),
                         PairPctCmp(commonGamesRecords, a, b),
                         RatCmp(OrZero(b.winPct), OrZero(a.winPct)) >>)

\* api.js 90-93: b.winPct !== a.winPct ? b.winPct - a.winPct : 0; a NaN
\* difference counts as 0 in the sort
StandingsCmp(a, b) ==
    IF IsNaN(a.winPct) \/ IsNaN(b.winPct) THEN 0 ELSE RatCmp(b.winPct, a.winPct)

\* simulation.js 102-106, 113-117: wins descending, then losses ascending
WinsThenLossesCmp(a, b) ==
    IF b.wins # a.wins THEN Sign(b.wins - a.wins) ELSE Sign(a.losses - b.losses)

\* playoff-calculator.js 96: b.impact.score - a.impact.score
ImpactCmp(a, b) == Sign(b.impact.score - a.impact.score)

Compare(kind, a, b) ==
    CASE kind = "division"   -> createDivisionTiebreakSort(a, b)
      [] kind = "conference" -> createConferenceTiebreakSort(a, b)
      [] kind = "wildcard"   -> WildCardPoolCmp(a, b)
      [] kind = "standings"  -> StandingsCmp(a, b)
      [] kind = "winsLosses" -> WinsThenLossesCmp(a, b)
      [] kind = "nonPlayoff" -> NonPlayoffCmp(a, b)
      [] OTHER               -> ImpactCmp(a, b)

(***************************************************************************)
(* Array.prototype.sort as V8 runs it on a short array (length < 64):      *)
(* CountAndMakeRun finds the initial run (reversing a strictly descending  *)
(* one), BinaryInsertionSort inserts the rest.  Positions are 1-based.     *)
(***************************************************************************)
\* length of the run starting at s[1]: it ends before the first position
\* whose element breaks the order (desc tells which order the run has);
\* cmp[<< a, b >>] is the comparator's result for a and b
RunLength(cmp, s, desc) ==
    LET breaks == { len \in 2..(Len(s) - 1) : (cmp[<< s[len + 1], s[len] >>] >= 0) = desc }
    IN  CHOOSE len \in breaks \cup { Len(s) } : \A other \in breaks : len <= other

\* where the pivot goes in s[left..right-1] (binary search of V8)
RECURSIVE InsertionPoint(_, _, _, _, _)
InsertionPoint(cmp, s, pivot, left, right) ==
    IF left < right
    THEN LET mid == left + ((right - left) \div 2) IN
         IF cmp[<< pivot, s[mid] >>] < 0
         THEN InsertionPoint(cmp, s, pivot, left, mid)
         ELSE InsertionPoint(cmp, s, pivot, mid + 1, right)
    ELSE left

\* the array with s[start] moved to position at of s[1..start]
Moved(s, start, at) ==
    SubSeq(s, 1, at - 1) \o << s[start] >> \o SubSeq(s, at, start - 1)
      \o SubSeq(s, start + 1, Len(s))

\* one step of the insertion loop: s[start] goes to its place in s[1..start-1]
Insert(cmp, s, start) == Moved(s, start, InsertionPoint(cmp, s, s[start], 1, start))

\* the steps for start = from, ..., to, in this order
RECURSIVE BinaryInsertionSort(_, _, _, _)
BinaryInsertionSort(cmp, s, from, to) ==
    IF from > to THEN s
    ELSE IF from = to THEN Insert(cmp, s, from)
    ELSE LET mid == (from + to) \div 2 IN
         BinaryInsertionSort(cmp, BinaryInsertionSort(cmp, s, from, mid), mid + 1, to)

\* the initial run made ascending, then the rest inserted
SortFromRun(cmp, s, desc, run) ==
    BinaryInsertionSort(cmp,
        IF desc THEN Reverse(SubSeq(s, 1, run)) \o SubSeq(s, run + 1, Len(s)) ELSE s,
        run + 1, Len(s))

SortWith(cmp, s, desc) == SortFromRun(cmp, s, desc, RunLength(cmp, s, desc))

ArraySort(kind, s) ==
    IF Len(s) < 2 THEN s
    ELSE With([ p \in Range(s) \X Range(s) |-> Compare(kind, p[1], p[2]) ],
              LAMBDA cmp : SortWith(cmp, s, cmp[<< s[2], s[1] >>] < 0))

(***************************************************************************)
(* Teams and tiebreak reasons.                                             *)
(*   team: [abbr, id, division, conference, wins, losses, ties, winPct,    *)
(*          tiebreakReason]                                                *)
(*   reason: the parts of the sentence "Wins [seeding] tie break over      *)
(*   <over> based on <how> (<rec> [vs <vs>])", Null when there is none.    *)
(***************************************************************************)
Team(abbr, w, l, t) ==
    [ abbr |-> abbr, id |-> TeamId(abbr), division |-> DIVISION_MAP[abbr],
      conference |-> getConference(abbr), wins |-> w, losses |-> l, ties |-> t,
      winPct |-> WinPctOf(w, l, t), tiebreakReason |-> Null ]

Reason(how, over, rec, vs) == [ how |-> how, over |-> over, rec |-> rec, vs |-> vs ]

WL(r) == << r.wins, r.losses >>

SameRecord(a, b) == a.wins = b.wins /\ a.losses = b.losses

Abbrs(s) == Array([ i \in 1..Len(s) |-> s[i].abbr ])

\* the first element of s with the abbreviation (Array.prototype.find)
Find(s, abbr) == s[RankOf(s, abbr)]

\* step of getTiebreakReason on a pair-keyed map: a.winPct > b.winPct.  A
\* missing opposite key makes the JavaScript throw a TypeError.
PairReason(map, how, teamA, teamB, needGames, withVs) ==
    LET k1 == << teamA.abbr, teamB.abbr >>
        k2 == << teamB.abbr, teamA.abbr >>
    IN  IF ~Has(map, k1) THEN Null
        ELSE IF needGames /\ map[k1].wins + map[k1].losses + map[k1].ties = 0 THEN Null
        ELSE IF ~Has(map, k2) THEN Reason("TypeError", << >>, Null, Null)
        ELSE IF RatCmp(map[k1].winPct, map[k2].winPct) > 0
             THEN Reason(how, << teamB.abbr >>, WL(map[k1]),
                         IF withVs THEN WL(map[k2]) ELSE Null)
             ELSE Null

\* step of getTiebreakReason on a per-team map: more wins, or as many wins
\* and fewer losses
TeamReason(map, how, teamA, teamB) ==
    IF Has(map, teamA.abbr) /\ Has(map, teamB.abbr)
    THEN LET a == map[teamA.abbr]
             b == map[teamB.abbr]
         IN  IF a.wins > b.wins \/ (a.wins = b.wins /\ a.losses < b.losses)
             THEN Reason(how, << teamB.abbr >>, WL(a), WL(b))
             ELSE Null
    ELSE Null

\* the first of the steps that gives a reason (or throws)
RECURSIVE FirstReason(_)
FirstReason(steps) ==
    IF steps = << >> THEN Null
    ELSE IF Head(steps) # Null THEN Head(steps)
    ELSE FirstReason(Tail(steps))

getTiebreakReason(teamA, teamB, context) ==
    IF ~SameRecord(teamA, teamB) THEN Null
    ELSE With(<< PairReason(headToHeadRecords, "head-to-head", teamA, teamB, TRUE, FALSE),
                 TeamReason(divisionRecords, "division record", teamA, teamB),
                 PairReason(commonGamesRecords, "common games", teamA, teamB, FALSE, TRUE),
                 TeamReason(conferenceRecords, "conference record", teamA, teamB) >>,
              \* h2h, div, com, conf
              LAMBDA r : FirstReason(IF context = "division" THEN r
                                     ELSE << r[1], r[4], r[3] >>))

(***************************************************************************)
(* breakTieMultiTeam (tiebreakers.js 140-246).                             *)
(***************************************************************************)
mutant_Sweeps(team, remaining) ==
    \E i \in 1..Len(remaining) :
        /\ remaining[i].abbr # team.abbr
        /\ Has(headToHeadRecords, << team.abbr, remaining[i].abbr >>)
        /\ RatCmp(headToHeadRecords[<< team.abbr, remaining[i].abbr >>].winPct, << 1, 2 >>) > 0

\* 165-194: the team beat every other remaining team head to head
Sweeps(team, remaining) ==
    \A i \in 1..Len(remaining) :
        remaining[i].abbr # team.abbr =>
            LET k == << team.abbr, remaining[i].abbr >> IN
            /\ Has(headToHeadRecords, k)
            /\ headToHeadRecords[k].wins + headToHeadRecords[k].losses
                 + headToHeadRecords[k].ties # 0
            /\ RatCmp(headToHeadRecords[k].winPct, << 1, 2 >>) > 0

mutant_BestConference(remaining, i, best) == Len(remaining)

\* 198-211: running best conference record over the teams that have one;
\* best is the index of the best team so far, 0 for none
RECURSIVE BestConference(_, _, _)
BestConference(remaining, i, best) ==
    IF i > Len(remaining) THEN best
    ELSE IF ~Has(conferenceRecords, remaining[i].abbr)
         THEN BestConference(remaining, i + 1, best)
    ELSE LET rec == conferenceRecords[remaining[i].abbr] IN
         IF best = 0
            \/ rec.wins > conferenceRecords[remaining[best].abbr].wins
            \/ (rec.wins = conferenceRecords[remaining[best].abbr].wins
                /\ rec.losses < conferenceRecords[remaining[best].abbr].losses)
         THEN BestConference(remaining, i + 1, i)
         ELSE BestConference(remaining, i + 1, best)

Others(remaining, abbr) == Abbrs(SelectSeq(remaining, LAMBDA t : t.abbr # abbr))

\* one round of the while loop: the index of the winner and its reason, or
\* index 0 when no tiebreaker decides
TieWinner(remaining) ==
    LET sweepers == { i \in 1..Len(remaining) : Sweeps(remaining[i], remaining) }
        best == BestConference(remaining, 1, 0)
    IN  IF sweepers # {}
        THEN LET w == CHOOSE i \in sweepers : \A j \in sweepers : i <= j IN
             [ at |-> w,
               reason |-> Reason("head-to-head sweep", Others(remaining, remaining[w].abbr),
                                 Null, Null) ]
        ELSE IF best # 0
                /\ Cardinality({ i \in 1..Len(remaining) :
                        /\ Has(conferenceRecords, remaining[i].abbr)
                        /\ WL(conferenceRecords[remaining[i].abbr])
                             = WL(conferenceRecords[remaining[best].abbr]) }) = 1
        THEN [ at |-> best,
               reason |-> Reason("conference record", Others(remaining, remaining[best].abbr),
                                 WL(conferenceRecords[remaining[best].abbr]), Null) ]
        ELSE [ at |-> 0, reason |-> Null ]

mutant_Emitted(remaining, sorted, w) ==
    [ remaining |-> Tail(remaining),
      sorted |-> Append(sorted, IF w.at # 0 THEN remaining[w.at] ELSE remaining[1]) ]

\* 175-193, 214-242: the winner w leaves remaining and joins sorted with its
\* reason; with no winner the first remaining team does, as it is
Emitted(remaining, sorted, w) ==
    IF w.at # 0
    THEN [ remaining |-> SelectSeq(remaining, LAMBDA t : t.abbr # remaining[w.at].abbr),
           sorted |-> Append(sorted, [ remaining[w.at] EXCEPT !.tiebreakReason = w.reason ]) ]
    ELSE [ remaining |-> Tail(remaining), sorted |-> Append(sorted, remaining[1]) ]

RECURSIVE BreakTieLoop(_, _, _)
BreakTieLoop(remaining, sorted, context) ==
    IF Len(remaining) = 0 THEN sorted
    ELSE IF Len(remaining) = 1 THEN Append(sorted, remaining[1])
    ELSE With(Emitted(remaining, sorted,
                      IF context = "wildcard" THEN TieWinner(remaining)
                      ELSE [ at |-> 0, reason |-> Null ]),
              LAMBDA next : BreakTieLoop(next.remaining, next.sorted, context))

breakTieMultiTeam(tiedTeams, context) ==
    IF Len(tiedTeams) <= 1 THEN tiedTeams ELSE BreakTieLoop(tiedTeams, << >>, context)

(***************************************************************************)
(* calculatePlayoffTeams (playoff-calculator.js 147-305).                  *)
(* The team objects of the argument are mutated (tiebreakReason), so the   *)
(* result carries both the playoff teams and the argument as it is left.   *)
(***************************************************************************)
\* PLAYOFF_SPOTS.WILD_CARDS
WILD_CARDS == 3

\* Object.keys(divisions): the divisions in order of first appearance
DivisionKeys(standings) ==
    LET first == { i \in 1..Len(standings) :
                     \A j \in 1..(i - 1) : standings[j].division # standings[i].division }
    IN  SubSeq([ k \in 1..Cardinality(first) |->
                   standings[CHOOSE i \in first :
                                 Cardinality({ j \in first : j < i }) = k - 1].division ],
               1, Cardinality(first))

\* the abbreviations of the teams after position i with the record of s[i]
TeamsBeaten(s, i) ==
    Abbrs(SelectSeq(SubSeq(s, i + 1, Len(s)), LAMBDA t : SameRecord(t, s[i])))

NumTied(s, i) == Cardinality({ j \in 1..Len(s) : SameRecord(s[j], s[i]) })

\* 163-196: reasons for the teams of one sorted division
WithReason(teamA, reason, teamsBeaten) ==
    IF reason # Null
    THEN [ teamA EXCEPT !.tiebreakReason = [ reason EXCEPT !.over = teamsBeaten ] ]
    ELSE teamA

mutant_DivisionReasons(sorted) ==
    Array([ i \in 1..Len(sorted) |->
        LET teamA == sorted[i]
            teamsBeaten == TeamsBeaten(sorted, i)
        IN  IF NumTied(sorted, i) > 1 /\ teamsBeaten # << >>
            THEN IF teamA.tiebreakReason = Null
                 THEN WithReason(teamA,
                          getTiebreakReason(teamA, Find(sorted, teamsBeaten[1]), "division"),
                          teamsBeaten)
                 ELSE [ teamA EXCEPT !.tiebreakReason = Null ]
            ELSE teamA ])

DivisionReasons(sorted) ==
    Array([ i \in 1..Len(sorted) |->
        LET teamA == sorted[i]
            teamsBeaten == TeamsBeaten(sorted, i)
        IN  IF NumTied(sorted, i) > 1 /\ teamA.tiebreakReason = Null /\ teamsBeaten # << >>
            THEN WithReason(teamA,
                     getTiebreakReason(teamA, Find(sorted, teamsBeaten[1]), "division"),
                     teamsBeaten)
            ELSE teamA ])

\* 160-162: divisions[div].sort(createDivisionTiebreakSort()), with reasons
SortedDivision(standings, div) ==
    DivisionReasons(ArraySort("division", SelectSeq(standings, LAMBDA t : t.division = div)))

\* 211-245: reasons for the seeding of the division winners
SeedingReasons(divisionWinners) ==
    Array([ i \in 1..Len(divisionWinners) |->
        LET teamA == divisionWinners[i]
            teamsBeaten == TeamsBeaten(divisionWinners, i)
        IN  IF /\ NumTied(divisionWinners, i) > 1
               /\ teamA.tiebreakReason = Null
               /\ teamsBeaten # << >>
               /\ Has(conferenceRecords, teamA.abbr)
            THEN LET aConf == conferenceRecords[teamA.abbr]
                     bConf == conferenceRecords[teamsBeaten[1]]
                 IN  \* 231-233: bConf.wins of an undefined bConf is a TypeError
                     IF ~Has(conferenceRecords, teamsBeaten[1])
                     THEN [ teamA EXCEPT !.tiebreakReason = Reason("TypeError", << >>, Null, Null) ]
                     ELSE IF aConf.wins > bConf.wins
                        \/ (aConf.wins = bConf.wins /\ aConf.losses < bConf.losses)
                     THEN [ teamA EXCEPT !.tiebreakReason =
                              Reason("seeding conference record", teamsBeaten, WL(aConf),
                                     IF Len(teamsBeaten) > 1 THEN Null ELSE WL(bConf)) ]
                     ELSE teamA
            ELSE teamA ])

\* 263-290: groups of adjacent teams within 0.0001 of the first of the group,
\* each group of more than one resolved by breakTieMultiTeam
RECURSIVE TiedGroupLength(_, _)
TiedGroupLength(pool, n) ==
    IF n < Len(pool) /\ DiffBelow(OrZero(pool[n + 1].winPct), OrZero(pool[1].winPct), 1, 10000)
    THEN TiedGroupLength(pool, n + 1)
    ELSE n

RECURSIVE ResolveGroups(_)
ResolveGroups(pool) ==
    IF pool = << >> THEN << >>
    ELSE LET n == TiedGroupLength(pool, 1)
             tiedGroup == SubSeq(pool, 1, n)
         IN  (IF n > 1 THEN breakTieMultiTeam(tiedGroup, "wildcard") ELSE tiedGroup)
               \o ResolveGroups(SubSeq(pool, n + 1, Len(pool)))

\* 201-205, 292-303: the entry of a playoff team
PlayoffTeam(t, seed, dw) ==
    [ abbr |-> t.abbr, id |-> t.id, division |-> t.division, conference |-> t.conference,
      wins |-> t.wins, losses |-> t.losses, ties |-> t.ties, winPct |-> t.winPct,
      tiebreakReason |-> t.tiebreakReason,
      seed |-> seed, isDivisionWinner |-> dw, isWildCard |-> ~dw ]

\* the latest version of the team object among the updated sequences
Latest(t, updated) ==
    IF \E i \in 1..Len(updated) : updated[i].abbr = t.abbr THEN Find(updated, t.abbr) ELSE t

\* the argument after the call: the same array in the same order, its team
\* objects carrying the reasons the call has set
MarkedStandings(standings, afterDivisions, sortedWildCardPool) ==
    Array([ i \in 1..Len(standings) |->
              Latest(Latest(standings[i], afterDivisions), sortedWildCardPool) ])

\* 292-305: the seeded playoff teams, with the arrays the call has built
PlayoffResult(standings, sortedDivs, divisionWinners, wildCardPool, sortedWildCardPool, both) ==
    [ playoffTeams |->
        Array([ i \in 1..Len(both) |-> PlayoffTeam(both[i], i, i <= Len(divisionWinners)) ]),
      standings |-> MarkedStandings(standings, Flatten(sortedDivs), sortedWildCardPool),
      \* the sorted arrays the call has built on the way
      divisions |-> sortedDivs,
      sortedPool |-> wildCardPool,
      wildCardPool |-> sortedWildCardPool ]

\* 292: the first WILD_CARDS of the sorted pool follow the division winners
WithWildCards(standings, sortedDivs, divisionWinners, wildCardPool, sortedWildCardPool) ==
    PlayoffResult(standings, sortedDivs, divisionWinners, wildCardPool, sortedWildCardPool,
                  divisionWinners \o SubSeq(sortedWildCardPool, 1,
                                     IF Len(sortedWildCardPool) < WILD_CARDS
                                     THEN Len(sortedWildCardPool) ELSE WILD_CARDS))

\* 248-250: everyone whose id is not a division winner's
WildCardPool(standings, afterDivisions, divisionWinners) ==
    SelectSeq(Array([ i \in 1..Len(standings) |-> Latest(standings[i], afterDivisions) ]),
              LAMBDA t : \A i \in 1..Len(divisionWinners) : divisionWinners[i].id # t.id)

\* 263-290: the tied groups of the sorted pool resolved
WithPool(standings, sortedDivs, divisionWinners, wildCardPool) ==
    WithWildCards(standings, sortedDivs, divisionWinners, wildCardPool,
                  ResolveGroups(wildCardPool))

\* 248-255: the pool sorted by the wild card sort
WithWinners(standings, sortedDivs, divisionWinners) ==
    WithPool(standings, sortedDivs, divisionWinners,
        ArraySort("wildcard", WildCardPool(standings, Flatten(sortedDivs), divisionWinners)))

\* 199-209: the first of each division, sorted by the conference sort
WithDivisions(standings, sortedDivs) ==
    WithWinners(standings, sortedDivs,
        SeedingReasons(ArraySort("conference",
            Array([ d \in 1..Len(sortedDivs) |-> sortedDivs[d][1] ]))))

SortedDivisions(standings, keys) ==
    Array([ d \in 1..Len(keys) |-> SortedDivision(standings, keys[d]) ])

calculatePlayoffTeams(standings) ==
    WithDivisions(standings, SortedDivisions(standings, DivisionKeys(standings)))

(***************************************************************************)
(* state.js helpers.                                                       *)
(***************************************************************************)
InStandings(standings, abbr) == \E i \in 1..Len(standings) : standings[i].abbr = abbr

\* getTargetTeamData()?.division || 'NFC North', ?.conference || 'NFC'
TargetDivision ==
    IF InStandings(allStandings, targetTeam)
    THEN Find(allStandings, targetTeam).division ELSE "NFC North"

TargetConference ==
    IF InStandings(allStandings, targetTeam)
    THEN Find(allStandings, targetTeam).conference ELSE "NFC"

getConferenceStandings(conference) ==
    SelectSeq(allStandings, LAMBDA t : t.conference = conference)

getDivisionStandings(division) ==
    SelectSeq(allStandings, LAMBDA t : t.division = division)

(***************************************************************************)
(* Critical Game Filter (playoff-calculator.js 29-137).                    *)
(*   game: [id, week, homeTeam, awayTeam, status, impact]; homeTeam and    *)
(*   awayTeam are the abbreviations, impact is Null until it is scored.    *)
(***************************************************************************)
Game(id, week, home, away) ==
    [ id |-> id, week |-> week, homeTeam |-> home, awayTeam |-> away,
      status |-> "pre", impact |-> Null ]

\* the division of a club as the standings give it (undefined when absent)
StandingDivision(abbr) ==
    IF InStandings(allStandings, abbr) THEN Find(allStandings, abbr).division ELSE "undefined"

WINS_IN_CONTENTION == 3

\* 72-85: both sides within 3 wins of allStandings[6]
WildCardContention(game) ==
    /\ Len(allStandings) >= 7
    /\ \A abbr \in { game.homeTeam, game.awayTeam } :
          /\ InStandings(allStandings, abbr)
          /\ Abs(Find(allStandings, abbr).wins - allStandings[7].wins) <= WINS_IN_CONTENTION

mutant_IsCritical(game) ==
    LET homeInConference == InStandings(getConferenceStandings(TargetConference), game.homeTeam)
        awayInConference == InStandings(getConferenceStandings(TargetConference), game.awayTeam)
        homeInDivision == InStandings(getDivisionStandings(TargetDivision), game.homeTeam)
        awayInDivision == InStandings(getDivisionStandings(TargetDivision), game.awayTeam)
    IN  /\ game.status # "final"
        /\ \/ game.homeTeam = targetTeam \/ game.awayTeam = targetTeam
           \/ homeInDivision /\ awayInDivision
           \/ (homeInDivision /\ awayInConference) \/ (awayInDivision /\ homeInConference)
           \/ WildCardContention(game)

\* 39-88: the filter predicate
IsCritical(game) ==
    LET homeInConference == InStandings(getConferenceStandings(TargetConference), game.homeTeam)
        awayInConference == InStandings(getConferenceStandings(TargetConference), game.awayTeam)
        homeInDivision == InStandings(getDivisionStandings(TargetDivision), game.homeTeam)
        awayInDivision == InStandings(getDivisionStandings(TargetDivision), game.awayTeam)
    IN  /\ game.status # "final"
        /\ homeInConference \/ awayInConference
        /\ \/ game.homeTeam = targetTeam \/ game.awayTeam = targetTeam
           \/ homeInDivision /\ awayInDivision
           \/ (homeInDivision /\ awayInConference) \/ (awayInDivision /\ homeInConference)
           \/ WildCardContention(game)

\* 104-137
calculateGameImpact(game) ==
    IF game.homeTeam = targetTeam \/ game.awayTeam = targetTeam
    THEN [ score |-> 100, label |-> "Critical" ]
    ELSE IF StandingDivision(game.homeTeam) = TargetDivision
            /\ StandingDivision(game.awayTeam) = TargetDivision
    THEN [ score |-> 80, label |-> "High" ]
    ELSE IF StandingDivision(game.homeTeam) = TargetDivision
            \/ StandingDivision(game.awayTeam) = TargetDivision
    THEN [ score |-> 60, label |-> "Medium" ]
    ELSE [ score |-> 40, label |-> "Medium" ]

WithImpact(game) == [ game EXCEPT !.impact = calculateGameImpact(game) ]

\* the critical games, scored and sorted by impact score, highest first
identifyCriticalGames ==
    LET critical == SelectSeq(allGames, IsCritical)
        scored == Array([ i \in 1..Len(critical) |-> WithImpact(critical[i]) ])
    IN  ArraySort("impact", scored)

\* the game objects of _allGames are the ones scored
ScoredGames ==
    Array([ i \in 1..Len(allGames) |->
        IF IsCritical(allGames[i]) THEN WithImpact(allGames[i]) ELSE allGames[i] ])

(***************************************************************************)
(* Scenario Simulator (simulation.js 58-128).                              *)
(*   outcomes: a function from game ids to "home" | "away"; an id outside  *)
(*   its domain has no outcome.                                            *)
(***************************************************************************)
Won(t) ==
    [ t EXCEPT !.wins = t.wins + 1, !.winPct = WinPctOf(t.wins + 1, t.losses, t.ties) ]

Lost(t) ==
    [ t EXCEPT !.losses = t.losses + 1, !.winPct = WinPctOf(t.wins, t.losses + 1, t.ties) ]

\* no update at all when a side of the game has no entry
mutant_ApplyPresent(standings, game, outcome) ==
    IF RankOf(standings, game.homeTeam) = 0 \/ RankOf(standings, game.awayTeam) = 0
    THEN standings
    ELSE Array([ i \in 1..Len(standings) |->
            IF i = RankOf(standings, IF outcome = "home" THEN game.homeTeam ELSE game.awayTeam)
            THEN Won(standings[i])
            ELSE IF i = RankOf(standings, IF outcome = "home" THEN game.awayTeam
                                          ELSE game.homeTeam)
            THEN Lost(standings[i])
            ELSE standings[i] ])

mutant_ApplyOutcome(standings, game, outcome) ==
    LET winner == IF outcome = "home" THEN game.awayTeam ELSE game.homeTeam
        loser == IF outcome = "home" THEN game.homeTeam ELSE game.awayTeam
    IN  Array([ i \in 1..Len(standings) |->
            IF standings[i].abbr = winner /\ i = RankOf(standings, winner) THEN Won(standings[i])
            ELSE IF standings[i].abbr = loser /\ i = RankOf(standings, loser) THEN Lost(standings[i])
            ELSE standings[i] ])

\* 72-88: one game with an outcome
ApplyOutcome(standings, game, outcome) ==
    LET winner == IF outcome = "home" THEN game.homeTeam ELSE game.awayTeam
        loser == IF outcome = "home" THEN game.awayTeam ELSE game.homeTeam
    IN  Array([ i \in 1..Len(standings) |->
            IF standings[i].abbr = winner /\ i = RankOf(standings, winner) THEN Won(standings[i])
            ELSE IF standings[i].abbr = loser /\ i = RankOf(standings, loser) THEN Lost(standings[i])
            ELSE standings[i] ])

\* 71-89: criticalGames.forEach, here for the games from, ..., to in order
RECURSIVE ApplyOutcomes(_, _, _, _, _)
ApplyOutcomes(standings, games, outcomes, from, to) ==
    IF from > to THEN standings
    ELSE IF from = to
    THEN IF Has(outcomes, games[from].id)
         THEN ApplyOutcome(standings, games[from], outcomes[games[from].id])
         ELSE standings
    ELSE LET mid == (from + to) \div 2
             first == ApplyOutcomes(standings, games, outcomes, from, mid)
         IN  \* the games up to mid are applied before the later ones are looked at
             IF Len(first) = Len(standings)
             THEN ApplyOutcomes(first, games, outcomes, mid + 1, to)
             ELSE first

\* 128-135: what the call returns
ScenarioResult(standings, playoffTeams, divisionTeams, wildCardPool) ==
    [ standings |-> standings,
      playoffTeams |-> playoffTeams,
      targetMadePlayoffs |-> InStandings(playoffTeams, targetTeam),
      targetSeed |-> IF InStandings(playoffTeams, targetTeam)
                     THEN Find(playoffTeams, targetTeam).seed ELSE 0,
      targetDivisionRank |-> RankOf(divisionTeams, targetTeam),
      targetWildcardRank |-> RankOf(wildCardPool, targetTeam) ]

\* 105-126: the target's division and the teams below the division winners,
\* each sorted by wins, then losses
ScenarioRanks(standings, conferenceStandings, playoffTeams) ==
    ScenarioResult(standings, playoffTeams,
        ArraySort("winsLosses",
            SelectSeq(standings, LAMBDA t :
                t.division = Find(conferenceStandings, targetTeam).division)),
        ArraySort("winsLosses",
            SelectSeq(conferenceStandings, LAMBDA t :
                \A i \in 1..Len(playoffTeams) :
                    playoffTeams[i].seed <= 4 => playoffTeams[i].id # t.id)))

\* 93-126: calculatePlayoffTeams throws (playoff-calculator.js 231-236) and
\* simulateScenario catches nothing; targetTeamData.division (101) throws
\* when the target has no entry.  Otherwise the copies of the conference are
\* the objects calculatePlayoffTeams has marked
ScenarioSeeded(applied, targetConference, seeded) ==
    IF (\E t \in Range(seeded.standings) \cup Range(seeded.playoffTeams) :
            t.tiebreakReason # Null /\ t.tiebreakReason.how = "TypeError")
          \/ ~InStandings(applied, targetTeam)
    THEN TypeError
    ELSE With(Array([ i \in 1..Len(applied) |-> Latest(applied[i], seeded.standings) ]),
              LAMBDA standings :
                  ScenarioRanks(standings,
                                SelectSeq(standings, LAMBDA t : t.conference = targetConference),
                                seeded.playoffTeams))

\* 96-99: the playoff teams of the target's conference
ScenarioApplied(applied, targetConference) ==
    ScenarioSeeded(applied, targetConference,
        calculatePlayoffTeams(SelectSeq(applied, LAMBDA t : t.conference = targetConference)))

\* 64-89: the copies of the stored team objects, with the outcomes applied
ScenarioCopies(outcomes) ==
    ApplyOutcomes(allStandings, criticalGames, outcomes, 1, Len(criticalGames))

\* 58-128: the ScenarioResult, or TypeError when the call throws
simulateScenario(outcomes) == ScenarioApplied(ScenarioCopies(outcomes), TargetConference)

\* 64: const standings = allStandings, the stored objects themselves
mutant_Cloned(standings) == [ i \in 1..Len(standings) |-> i ]

\* 64: JSON.parse(JSON.stringify(allStandings)).  The team objects of the
\* stored array are the objects 1, ..., n of the heap; the array worked on
\* holds n new objects, n + 1, ..., 2n
Cloned(standings) == [ i \in 1..Len(standings) |-> Len(standings) + i ]

\* the heap when the call ends: object refs[i] is as the call has left the
\* i-th element of the array it worked on
HeapAfter(heap, refs, worked) ==
    [ object \in 1..Len(heap) |->
        IF \E i \in 1..Len(refs) : refs[i] = object
        THEN worked[CHOOSE i \in 1..Len(refs) : refs[i] = object]
        ELSE heap[object] ]

\* the stored array after a call of simulateScenario that has left the
\* array it worked on as given: the objects 1, ..., n of the heap
StoredAfter(worked) ==
    SubSeq(HeapAfter(allStandings \o allStandings, Cloned(allStandings), worked),
           1, Len(allStandings))

(***************************************************************************)
(* Outcome assignments (simulation.js): objects from game id to "home" or  *)
(* "away".                                                                 *)
(***************************************************************************)
Ids(games) == { games[i].id : i \in 1..Len(games) }

\* const outcomes = { ...locked }, then outcomes[id] = picked[id] for the
\* ids of picked
Assigned(locked, picked) ==
    IF DOMAIN locked \cup DOMAIN picked = {} THEN << >>
    ELSE [ id \in DOMAIN locked \cup DOMAIN picked |->
             IF id \in DOMAIN picked THEN picked[id] ELSE locked[id] ]

\* delete locked[id]
Removed(locked, id) ==
    IF DOMAIN locked \ {id} = {} THEN << >>
    ELSE [ other \in DOMAIN locked \ {id} |-> locked[other] ]

mutant_UndecidedGames(locked) == criticalGames

\* 187, 341: criticalGames.filter(g => !userOutcomes[g.id])
UndecidedGames(locked) == SelectSeq(criticalGames, LAMBDA g : ~Has(locked, g.id))

(***************************************************************************)
(* Game outcome prediction (simulation.js 22-48): the values the call can  *)
(* return, Math.random() being any double in [0, 1).                       *)
(***************************************************************************)
\* winPct || 0.5
OrHalf(p) == IF IsNaN(p) \/ p[1] = 0 THEN << 1, 2 >> ELSE p

\* << n, d >> for 0.05
HOME_FIELD_ADVANTAGE == << 1, 20 >>

\* 35-41 without the home field advantage
mutant_HomeProb(homeWinPct, awayWinPct) ==
    << homeWinPct[1] * awayWinPct[2],
       homeWinPct[1] * awayWinPct[2] + awayWinPct[1] * homeWinPct[2] >>

\* 35-41: homeWinPct / totalWeight + HOME_FIELD_ADVANTAGE as a fraction
HomeProb(homeWinPct, awayWinPct) ==
    LET weight == << homeWinPct[1] * awayWinPct[2] + awayWinPct[1] * homeWinPct[2],
                     homeWinPct[2] * awayWinPct[2] >>
        share == IF weight[1] > 0
                 THEN << homeWinPct[1] * awayWinPct[2], weight[1] >>
                 ELSE << 1, 2 >>
    IN  << share[1] * HOME_FIELD_ADVANTAGE[2] + HOME_FIELD_ADVANTAGE[1] * share[2],
           share[2] * HOME_FIELD_ADVANTAGE[2] >>

\* Math.random() < p ? 'home' : 'away'
Flip(p) ==
    (IF p[1] > 0 THEN {"home"} ELSE {}) \cup (IF p[1] < p[2] THEN {"away"} ELSE {})

\* 26-47: the probability Math.random() is compared with
OutcomeProb(game) ==
    IF useWeightedSimulation
    THEN IF ~InStandings(allStandings, game.homeTeam) \/ ~InStandings(allStandings, game.awayTeam)
         THEN << 1, 2 >>
         ELSE HomeProb(OrHalf(Find(allStandings, game.homeTeam).winPct),
                       OrHalf(Find(allStandings, game.awayTeam).winPct))
    ELSE << 1, 2 >>

getGameOutcome(game) == Flip(OutcomeProb(game))

mutant_TrialOutcomes(locked) ==
    { Assigned(locked, sampled) :
        sampled \in { f \in [ Ids(criticalGames) -> {"home", "away"} ] :
                        \A i \in 1..Len(criticalGames) :
                            f[criticalGames[i].id] \in getGameOutcome(criticalGames[i]) } }

\* 147-153: the assignments one trial can hand to simulateScenario
TrialOutcomes(locked) ==
    { Assigned(locked, sampled) :
        sampled \in { f \in [ Ids(UndecidedGames(locked)) -> {"home", "away"} ] :
                        \A i \in 1..Len(criticalGames) :
                            ~Has(locked, criticalGames[i].id)
                                => f[criticalGames[i].id] \in getGameOutcome(criticalGames[i]) } }

(***************************************************************************)
(* Best and worst case searches (simulation.js 180-482).  A search keeps   *)
(* [result, outcomes], both Null before the first scenario.                *)
(***************************************************************************)
maxBruteForce == 14

NoScenario == [ result |-> Null, outcomes |-> Null ]

\* 221-225, 288-292, 313-317: the condition under which the scenario
\* replaces bestResult
ImprovesBest(result, bestResult) ==
    IF bestResult = Null THEN TRUE
    ELSE \/ result.targetMadePlayoffs /\ ~bestResult.targetMadePlayoffs
         \/ /\ result.targetMadePlayoffs /\ bestResult.targetMadePlayoffs
            /\ result.targetSeed < bestResult.targetSeed
         \/ /\ ~result.targetMadePlayoffs /\ ~bestResult.targetMadePlayoffs
            /\ \/ result.targetWildcardRank < bestResult.targetWildcardRank
               \/ result.targetDivisionRank < bestResult.targetDivisionRank

\* 373-377, 440-444, 464-468: the condition under which it replaces
\* worstResult
ImprovesWorst(result, worstResult) ==
    IF worstResult = Null THEN TRUE
    ELSE \/ ~result.targetMadePlayoffs /\ worstResult.targetMadePlayoffs
         \/ /\ result.targetMadePlayoffs /\ worstResult.targetMadePlayoffs
            /\ result.targetSeed > worstResult.targetSeed
         \/ /\ ~result.targetMadePlayoffs /\ ~worstResult.targetMadePlayoffs
            /\ \/ result.targetWildcardRank > worstResult.targetWildcardRank
               \/ result.targetDivisionRank > worstResult.targetDivisionRank

Improves(kind, result, incumbent) ==
    IF kind = "best" THEN ImprovesBest(result, incumbent) ELSE ImprovesWorst(result, incumbent)

\* const result = simulateScenario(outcomes); if (...) { xResult = result;
\* xOutcomes = outcomes }
\* A TypeError thrown by simulateScenario leaves the loop and the search:
\* nothing is kept
Scenario(kind, kept, outcomes) ==
    With(simulateScenario(outcomes),
         LAMBDA result :
             IF result = TypeError THEN TypeError
             ELSE IF Improves(kind, result, kept.result)
             THEN [ result |-> result, outcomes |-> outcomes ]
             ELSE kept)

\* 214-217, 366-369: combination i sets undecided game index to home when
\* bit index of i is 0, to away when it is 1
Combination(locked, undecidedGames, i) ==
    Assigned(locked,
        [ id \in Ids(undecidedGames) |->
            LET index == (CHOOSE k \in 1..Len(undecidedGames) : undecidedGames[k].id = id) - 1
            IN  IF (i \div (2 ^ index)) % 2 = 0 THEN "home" ELSE "away" ])

\* 211-229, 363-381: the combinations from, ..., to in order; the loop ends
\* at the combination whose simulation throws
RECURSIVE Combinations(_, _, _, _, _, _)
Combinations(kind, locked, undecidedGames, from, to, kept) ==
    IF from > to THEN kept
    ELSE IF from = to
    THEN Scenario(kind, kept, Combination(locked, undecidedGames, from))
    ELSE LET mid == (from + to) \div 2
             first == Combinations(kind, locked, undecidedGames, from, mid, kept)
         IN  \* the combinations up to mid are tried before the later ones
             IF first = TypeError THEN TypeError
             ELSE Combinations(kind, locked, undecidedGames, mid + 1, to, first)

\* 234-237: the critical games with an outcome, each with its selected winner
GamesSet(outcomes) ==
    Array([ i \in 1..Len(SelectSeq(criticalGames, LAMBDA g : Has(outcomes, g.id))) |->
        LET g == SelectSeq(criticalGames, LAMBDA c : Has(outcomes, c.id))[i]
        IN  [ id |-> g.id, week |-> g.week, homeTeam |-> g.homeTeam, awayTeam |-> g.awayTeam,
              status |-> g.status, impact |-> g.impact,
              selectedWinner |-> IF outcomes[g.id] = "home" THEN g.homeTeam ELSE g.awayTeam ] ])

\* 231-238: what a search returns
Returned(kept) ==
    [ outcomes |-> kept.outcomes, result |-> kept.result, gamesSet |-> GamesSet(kept.outcomes) ]

\* 202-239, 355-391 for the locked outcomes given: what the search returns,
\* or TypeError when a simulation of its loop throws
BruteForce(kind, locked, undecidedGames) ==
    With(Combinations(kind, locked, undecidedGames, 0, 2 ^ Len(undecidedGames) - 1,
                      NoScenario),
         LAMBDA kept : IF kept = TypeError THEN TypeError ELSE Returned(kept))

findBestCaseBruteForce(undecidedGames) == BruteForce("best", userOutcomes, undecidedGames)

findWorstCaseBruteForce(undecidedGames) == BruteForce("worst", userOutcomes, undecidedGames)

\* 250-263, 402-415
TargetGames(undecidedGames) ==
    SelectSeq(undecidedGames, LAMBDA g : g.homeTeam = targetTeam \/ g.awayTeam = targetTeam)

OtherGames(undecidedGames) ==
    SelectSeq(undecidedGames, LAMBDA g : g.homeTeam # targetTeam /\ g.awayTeam # targetTeam)

DivisionRivals ==
    { allStandings[i].abbr : i \in { j \in 1..Len(allStandings) :
        allStandings[j].division = TargetDivision /\ allStandings[j].abbr # targetTeam } }

\* the other games whose outcome a sample of the strategy draws at random
DrawnGames(strategy, undecidedGames) ==
    SelectSeq(OtherGames(undecidedGames), LAMBDA g :
        strategy = 2 \/ (g.homeTeam \notin DivisionRivals /\ g.awayTeam \notin DivisionRivals))

\* 270-284, 300-309, 422-436, 452-460: the assignment of one sample;
\* drawn holds the outcomes drawn at random
Sample(kind, strategy, locked, undecidedGames, drawn) ==
    Assigned(locked,
        [ id \in Ids(undecidedGames) |->
            LET g == CHOOSE c \in Range(undecidedGames) : c.id = id
            IN  IF g.homeTeam = targetTeam \/ g.awayTeam = targetTeam
                THEN IF (g.homeTeam = targetTeam) = (kind = "best") THEN "home" ELSE "away"
                ELSE IF strategy = 2 THEN drawn[id]
                ELSE IF g.homeTeam \in DivisionRivals
                THEN IF kind = "best" THEN "away" ELSE "home"
                ELSE IF g.awayTeam \in DivisionRivals
                THEN IF kind = "best" THEN "home" ELSE "away"
                ELSE drawn[id] ])

\* 269-286, 299-311, 421-438, 451-462: the scenarios an iteration of the loop
\* of the strategy can simulate, one for each way Math.random can fall
Samples(kind, strategy, locked, undecidedGames) ==
    { With(Sample(kind, strategy, locked, undecidedGames, drawn),
           LAMBDA outcomes : [ result |-> simulateScenario(outcomes), outcomes |-> outcomes ]) :
        drawn \in [ Ids(DrawnGames(strategy, undecidedGames)) -> {"home", "away"} ] }

\* 286-295, 311-320, 438-447, 462-471: one iteration: the scenario is kept
\* when it improves on the one kept; a TypeError thrown by simulateScenario
\* leaves the loop and the search
Iteration(kind, kept, sample) ==
    IF sample.result = TypeError THEN TypeError
    ELSE IF Improves(kind, sample.result, kept.result) THEN sample ELSE kept

\* what a loop can hold after one more iteration: from each scenario it can
\* hold, each scenario it can simulate
Iterated(kind, samples, kepts) ==
    { Iteration(kind, kept, sample) : kept \in kepts \ { TypeError }, sample \in samples }

\* what a loop can hold after any number of iterations more.  An iteration
\* whose scenario is not kept changes nothing and a scenario simulated again
\* is not kept, so what the loop can hold after its last iteration is what
\* it can hold after some of them
RECURSIVE Iterations(_, _, _)
Iterations(kind, samples, kepts) ==
    With(kepts \cup Iterated(kind, samples, kepts),
         LAMBDA more : IF more = kepts THEN kepts ELSE Iterations(kind, samples, more))

\* 269-296, 299-321, 421-448, 451-472: a loop of 3000 or 1000 iterations,
\* started with one of kepts: what it can hold at its end, TypeError when an
\* iteration can throw or the loop before it has thrown
Loop(kind, samples, kepts) ==
    With(samples,
         LAMBDA simulated :
             Iterations(kind, simulated, Iterated(kind, simulated, kepts))
                 \cup (kepts \cap { TypeError }))

\* 244-330, 396-482 for the locked outcomes given: what the search can
\* return, TypeError when a simulation of its loops can throw
Heuristic(kind, locked, undecidedGames) ==
    { IF kept = TypeError THEN TypeError ELSE Returned(kept) :
        kept \in Loop(kind, Samples(kind, 2, locked, undecidedGames),
                      Loop(kind, Samples(kind, 1, locked, undecidedGames), { NoScenario })) }

findBestCaseHeuristic(undecidedGames) == Heuristic("best", userOutcomes, undecidedGames)

findWorstCaseHeuristic(undecidedGames) == Heuristic("worst", userOutcomes, undecidedGames)

\* 180-197, 336-350: what the search can return, or TypeError: one scenario
\* from the exhaustive search, one of several from the heuristic search,
\* which draws outcomes with Math.random
findScenarioOf(kind) ==
    With(UndecidedGames(userOutcomes),
         LAMBDA undecidedGames :
             IF Len(undecidedGames) <= maxBruteForce
             THEN { BruteForce(kind, userOutcomes, undecidedGames) }
             ELSE Heuristic(kind, userOutcomes, undecidedGames))

findBestCaseScenario == findScenarioOf("best")

findWorstCaseScenario == findScenarioOf("worst")

(***************************************************************************)
(* The season so far: the completed games the server stores and ESPN       *)
(* reports.  The first OpenResults games may go either way, the first      *)
(* TieResults of them may also be stored with a winner that maps to no     *)
(* club (a tie); the rest were won by the home side.                       *)
(***************************************************************************)
TieResults == 1

\* << home, away >>
CompletedSchedule ==
    << << "CHI", "DET" >>, << "DAL", "ATL" >>, << "CAR", "NYG" >>, << "GB", "CHI" >>,
       << "NYG", "LAR" >>, << "GB", "CIN" >>, << "DET", "GB" >>, << "LAR", "CAR" >>,
       << "ATL", "ARI" >>, << "ATL", "CAR" >>, << "DAL", "NYG" >>, << "ARI", "LAR" >>,
       << "DET", "CAR" >>, << "CHI", "BAL" >>, << "BAL", "CIN" >>, << "HOU", "IND" >>,
       << "DEN", "KC" >>, << "BUF", "HOU" >>, << "CIN", "DEN" >>, << "IND", "BUF" >>,
       << "KC", "BAL" >>, << "CHI", "ATL" >> >>

ResultChoices ==
    { r \in [ 1..OpenResults -> {"home", "away", "tie"} ] :
        \A i \in 1..OpenResults : r[i] = "tie" => i <= TieResults }

\* the rows of the games table: status 'final', winner not NULL
CompletedGames(r) ==
    Array([ i \in 1..Len(CompletedSchedule) |->
        LET home == CompletedSchedule[i][1]
            away == CompletedSchedule[i][2]
            res == IF i <= OpenResults THEN r[i] ELSE "home"
        IN  [ home |-> home, away |-> away,
              winner |-> IF res = "home" THEN home ELSE IF res = "away" THEN away ELSE "" ] ])

\* rows of the games table after those of CompletedSchedule: Washington has
\* beaten Dallas twice and leads the NFC East, Kansas City has won twice more
\* and Arizona once
WashingtonGames ==
    << [ home |-> "WSH", away |-> "DAL", winner |-> "WSH" ],
       [ home |-> "DAL", away |-> "WSH", winner |-> "WSH" ],
       [ home |-> "KC", away |-> "DEN", winner |-> "KC" ],
       [ home |-> "KC", away |-> "BUF", winner |-> "KC" ],
       [ home |-> "ARI", away |-> "LAR", winner |-> "ARI" ] >>

\* the row of the week after: Washington has beaten Kansas City as well
WashingtonWin == << [ home |-> "WSH", away |-> "KC", winner |-> "WSH" ] >>

\* the season with Washington in the table
WashingtonSeason == CompletedGames([ i \in 1..OpenResults |-> "home" ]) \o WashingtonGames

\* the first rows of the table, early in the season: six clubs of three
\* divisions of the NFC have played, no club of the AFC has
EarlyGames == SubSeq(CompletedGames([ i \in 1..OpenResults |-> "home" ]), 1, 3)

\* games ESPN counts in a club's record that the server has no row for
BaseRecord(t) ==
    CASE t = "KC"  -> << 4, 0, 0 >>
      [] t = "BUF" -> << 0, 4, 0 >>
      [] t = "ARI" -> << 4, 1, 0 >>
      [] t = "WSH" -> << 3, 2, 0 >>
      [] OTHER     -> << 0, 0, 0 >>

\* api.js 41-97 fetchStandings: one entry per club in order of first
\* appearance, then sorted by win percentage, highest first
FirstAppearance(games) ==
    LET clubs == { games[i].home : i \in 1..Len(games) } \cup { games[i].away : i \in 1..Len(games) }
        \* position of the first mention: the home side of an event comes first
        at(club) == CHOOSE n \in 1..(2 * Len(games)) :
                        /\ club = IF n % 2 = 1 THEN games[(n + 1) \div 2].home
                                  ELSE games[n \div 2].away
                        /\ \A m \in 1..(n - 1) :
                              club # IF m % 2 = 1 THEN games[(m + 1) \div 2].home
                                     ELSE games[m \div 2].away
    IN  SubSeq([ k \in 1..Cardinality(clubs) |->
                   CHOOSE club \in clubs :
                       Cardinality({ other \in clubs : at(other) < at(club) }) = k - 1 ],
               1, Cardinality(clubs))

fetchStandings(games) ==
    LET order == FirstAppearance(games)
        entry(club) ==
            LET won == Count(games, LAMBDA g : Involves(g, club) /\ g.winner = club)
                lost == Count(games, LAMBDA g : Involves(g, club) /\ g.winner = Opponent(g, club))
                tied == Count(games, LAMBDA g : Involves(g, club) /\ g.winner = "")
            IN  Team(club, BaseRecord(club)[1] + won, BaseRecord(club)[2] + lost,
                     BaseRecord(club)[3] + tied)
    IN  ArraySort("standings", Array([ i \in 1..Len(order) |-> entry(order[i]) ]))

(***************************************************************************)
(* The modules as they are when the page has loaded (state.js 314-323,     *)
(* tiebreakers.js 8-11), before initializeApp has fetched anything.        *)
(***************************************************************************)
Init ==
    /\ targetTeam = "CHI"
    /\ allStandings = << >>
    /\ allGames = << >>
    /\ criticalGames = << >>
    /\ userOutcomes = << >>
    /\ useWeightedSimulation = TRUE
    /\ currentBestCase = Null
    /\ currentWorstCase = Null
    /\ conferenceRecords = << >>
    /\ divisionRecords = << >>
    /\ commonGamesRecords = << >>
    /\ headToHeadRecords = << >>
    /\ pc = "start"
    /\ call = Null

(***************************************************************************)
(* The load of initializeApp (playoff-app.js 39-81).  initializeApp awaits *)
(* each request and writes its answer before the next one is sent, so the  *)
(* load is a sequence of steps; a request that is rejected ends it in the  *)
(* catch block, with what has been written so far.  During the load call   *)
(* holds the answers still to come, the position the session takes up      *)
(* after the load (then) and the call record it has there (next).          *)
(***************************************************************************)
\* the answers of the requests: fetchStandings, fetchRemainingGames and the
\* four endpoints of the record maps
Responses(standings, games, conference, division, commonGames, headToHead) ==
    [ standings |-> standings, games |-> games, conferenceRecords |-> conference,
      divisionRecords |-> division, commonGamesRecords |-> commonGames,
      headToHeadRecords |-> headToHead ]

\* the answers when the finished games of the season are the rows given
ResponsesOf(rows, remaining) ==
    Responses(fetchStandings(rows), remaining,
              ConferenceRecordsOf(TEAM_INFO, StoredRows(rows)),
              DivisionRecordsOf(TEAM_INFO, StoredRows(rows)),
              CommonGamesOf(TEAM_INFO, StoredRows(rows)),
              HeadToHeadOf(TEAM_INFO, StoredRows(rows)))

\* playoff-app.js 44-48: await fetchCurrentSeasonInfo(); const standings =
\* await fetchStandings(); setAllStandings(standings)
Fetch(responses, then, next) ==
    /\ pc = "start"
    /\ allStandings' = responses.standings
    /\ call' = [ responses |-> responses, then |-> then, next |-> next ]
    /\ pc' = "fetchRemainingGames"
    /\ UNCHANGED << targetTeam, allGames, criticalGames, userOutcomes, useWeightedSimulation,
                    currentBestCase, currentWorstCase, records >>

\* playoff-app.js 50-51: const games = await fetchRemainingGames();
\* setAllGames(games)
setAllGames ==
    /\ pc = "fetchRemainingGames"
    /\ allGames' = call.responses.games
    /\ pc' = "conferenceRecords"
    /\ UNCHANGED << targetTeam, allStandings, criticalGames, userOutcomes,
                    useWeightedSimulation, currentBestCase, currentWorstCase, records, call >>

\* tiebreakers.js 23-30: conferenceRecords = await confResponse.json()
conferenceRecordsLoaded ==
    /\ pc = "conferenceRecords"
    /\ conferenceRecords' = call.responses.conferenceRecords
    /\ pc' = "divisionRecords"
    /\ UNCHANGED << session, divisionRecords, commonGamesRecords, headToHeadRecords, call >>

\* tiebreakers.js 31: divisionRecords = await divResponse.json()
divisionRecordsLoaded ==
    /\ pc = "divisionRecords"
    /\ divisionRecords' = call.responses.divisionRecords
    /\ pc' = "commonGamesRecords"
    /\ UNCHANGED << session, conferenceRecords, commonGamesRecords, headToHeadRecords, call >>

\* tiebreakers.js 32: commonGamesRecords = await commonResponse.json()
commonGamesRecordsLoaded ==
    /\ pc = "commonGamesRecords"
    /\ commonGamesRecords' = call.responses.commonGamesRecords
    /\ pc' = "headToHeadRecords"
    /\ UNCHANGED << session, conferenceRecords, divisionRecords, headToHeadRecords, call >>

\* tiebreakers.js 33: headToHeadRecords = await h2hResponse.json(); the load
\* is over
headToHeadRecordsLoaded ==
    /\ pc = "headToHeadRecords"
    /\ headToHeadRecords' = call.responses.headToHeadRecords
    /\ pc' = call.then
    /\ call' = call.next
    /\ UNCHANGED << session, conferenceRecords, divisionRecords, commonGamesRecords >>

Loading ==
    { "start", "fetchRemainingGames", "conferenceRecords", "divisionRecords",
      "commonGamesRecords", "headToHeadRecords" }

\* the request awaited is rejected (api.js 48, 104, tiebreakers.js 23-39):
\* playoff-app.js 71-80 catches the error and initializeApp ends
fetchRejected ==
    /\ pc \in Loading
    /\ pc' = "error"
    /\ call' = Null
    /\ UNCHANGED << session, records >>

(***************************************************************************)
(* SpecSeed: the Seeding Resolver run by renderStandings on the standings   *)
(* of one conference, and run again by the next rendering of the same      *)
(* conference, over every season of the bounds.                            *)
(***************************************************************************)
FetchSeason ==
    \E r \in ResultChoices :
        Fetch(ResponsesOf(CompletedGames(r), << >>), "seed",
              [ runs |-> 0, standings |-> << >>, playoffTeams |-> << >>, previous |-> << >>,
                divisions |-> << >>, wildCardPool |-> << >> ])

\* the team objects of allStandings are the ones the call has marked
Marked(standings) ==
    Array([ i \in 1..Len(allStandings) |-> Latest(allStandings[i], standings) ])

\* a TypeError was thrown where a reason was being worked out
Throws(seeded) ==
    \E t \in Range(seeded.standings) \cup Range(seeded.playoffTeams) :
        t.tiebreakReason # Null /\ t.tiebreakReason.how = "TypeError"

\* the reason of the team is the mark of a TypeError thrown
Thrown(t) == t.tiebreakReason # Null /\ t.tiebreakReason.how = "TypeError"

\* part_004 149-201: the teams of the conference outside the playoffs, sorted
NonPlayoffTeams(standings, playoffTeams) ==
    ArraySort("nonPlayoff",
        SelectSeq(standings, LAMBDA t :
            \A i \in 1..Len(playoffTeams) : playoffTeams[i].id # t.id))

\* part_004 204-237: the reason of each team outside the playoffs that has
\* none and is tied with a team sorted after it
NonPlayoffReasons(sorted) ==
    Array([ i \in 1..Len(sorted) |->
        LET teamA == sorted[i]
            teamsBeaten == TeamsBeaten(sorted, i)
        IN  IF NumTied(sorted, i) > 1 /\ teamA.tiebreakReason = Null /\ teamsBeaten # << >>
            THEN WithReason(teamA,
                     getTiebreakReason(teamA, Find(sorted, teamsBeaten[1]), "wildcard"),
                     teamsBeaten)
            ELSE teamA ])

\* the loop of 204-237 runs up to the first team whose reason throws: the
\* teams before it carry their reasons, the others are as they were
ReasonsKept(sorted, reasoned) ==
    [ teams |->
        Array([ i \in 1..Len(sorted) |->
            IF \E j \in 1..i : Thrown(reasoned[j]) THEN sorted[i] ELSE reasoned[i] ]),
      threw |-> \E j \in 1..Len(reasoned) : Thrown(reasoned[j]) ]

\* the team objects of the conference standings after the loop
NonPlayoffMarked(standings, sorted) ==
    With(ReasonsKept(sorted, NonPlayoffReasons(sorted)),
         LAMBDA kept : [ teams |-> Array([ i \in 1..Len(standings) |->
                                       Latest(standings[i], kept.teams) ]),
                         threw |-> kept.threw ])

\* part_004 140-237 for the result of calculatePlayoffTeams: the team objects
\* of the conference as renderStandings leaves them, and whether it threw.
\* When calculatePlayoffTeams throws, the reasons set before the throw stay
RenderedWith(seeded) ==
    IF Throws(seeded)
    THEN [ teams |-> SelectSeq(Flatten(seeded.divisions), LAMBDA t : ~Thrown(t)),
           threw |-> TRUE ]
    ELSE NonPlayoffMarked(seeded.standings,
                          NonPlayoffTeams(seeded.standings, seeded.playoffTeams))

\* part_004 140-237
renderStandings(conference) ==
    RenderedWith(calculatePlayoffTeams(getConferenceStandings(conference)))

\* part_004 132-135: renderStandings('NFC', ...), then renderStandings('AFC',
\* ...) unless the first call threw.  The two calls read and write the team
\* objects of their own conference only
BothRendered(nfc, afc) ==
    IF nfc.threw THEN [ standings |-> Marked(nfc.teams), threw |-> TRUE ]
    ELSE [ standings |-> Marked(nfc.teams \o afc.teams), threw |-> afc.threw ]

renderBothStandings == BothRendered(renderStandings("NFC"), renderStandings("AFC"))

\* part_004 29-96: renderApp leaves the stored standings as renderBothStandings
\* does; when it throws, the handler ends there
RenderedStandings == renderBothStandings.standings

\* part_004 140-237: renderStandings(conference, ...).  The call keeps what
\* calculatePlayoffTeams (line 146) returned and built; the stored team
\* objects carry the reasons set by it and by the loop of 204-237
Rendered(runs, previous, seeded) ==
    /\ call' = [ runs |-> runs, standings |-> seeded.standings,
                 playoffTeams |-> seeded.playoffTeams, previous |-> previous,
                 divisions |-> seeded.divisions, wildCardPool |-> seeded.wildCardPool ]
    /\ allStandings' = Marked(RenderedWith(seeded).teams)
    /\ pc' = IF RenderedWith(seeded).threw THEN "error" ELSE "seed"
    /\ UNCHANGED << targetTeam, allGames, criticalGames, userOutcomes, useWeightedSimulation,
                    currentBestCase, currentWorstCase, records >>

\* renderStandings for one conference
Seed(conference) ==
    /\ pc = "seed"
    /\ call.runs = 0
    /\ Rendered(1, << >>, calculatePlayoffTeams(getConferenceStandings(conference)))

\* renderStandings once more for the conference of the last call
SeedAgain ==
    /\ pc = "seed"
    /\ call.runs = 1
    /\ Rendered(2, call.playoffTeams,
             calculatePlayoffTeams(getConferenceStandings(call.standings[1].conference)))

NextSeed ==
    \/ FetchSeason
    \/ setAllGames
    \/ conferenceRecordsLoaded
    \/ divisionRecordsLoaded
    \/ commonGamesRecordsLoaded
    \/ headToHeadRecordsLoaded
    \/ fetchRejected
    \/ \E conference \in {"NFC", "AFC"} : Seed(conference)
    \/ SeedAgain

SpecSeed == Init /\ [][NextSeed]_vars

Seeded == pc = "seed" /\ call.runs > 0

\* C8: calculatePlayoffTeams run a second time on the same standings, the
\* tiebreak records unchanged, returns the same teams with the same seeds,
\* flags and tiebreak reasons.
C8_Idempotent ==
    (pc = "seed" /\ call.runs = 2) => call.playoffTeams = call.previous

\* a second run whose result carries a reason set in the division stage, one
\* set in the seeding of the division winners and one set for a wild card
C8_Witness ==
    /\ pc = "seed" /\ call.runs = 2
    /\ \E i, j, k \in 1..Len(call.playoffTeams) :
          /\ call.playoffTeams[i].isDivisionWinner
          /\ call.playoffTeams[i].tiebreakReason # Null
          /\ call.playoffTeams[i].tiebreakReason.how = "seeding conference record"
          /\ call.playoffTeams[j].tiebreakReason # Null
          /\ call.playoffTeams[j].tiebreakReason.how = "head-to-head"
          /\ call.playoffTeams[k].isWildCard
          /\ call.playoffTeams[k].tiebreakReason # Null
          /\ call.playoffTeams[k].tiebreakReason.how \in {"head-to-head sweep", "conference record"}

(***************************************************************************)
(* Head to head (C5).                                                      *)
(***************************************************************************)
SamePct(a, b) == ~IsNaN(a.winPct) /\ ~IsNaN(b.winPct) /\ RatCmp(a.winPct, b.winPct) = 0

\* a has the better head-to-head record against b, games actually played
BetterHeadToHead(a, b) ==
    /\ Has(headToHeadRecords, << a.abbr, b.abbr >>)
    /\ Has(headToHeadRecords, << b.abbr, a.abbr >>)
    /\ headToHeadRecords[<< a.abbr, b.abbr >>].wins + headToHeadRecords[<< a.abbr, b.abbr >>].losses
         + headToHeadRecords[<< a.abbr, b.abbr >>].ties > 0
    /\ RatCmp(headToHeadRecords[<< a.abbr, b.abbr >>].winPct,
              headToHeadRecords[<< b.abbr, a.abbr >>].winPct) > 0

BetterConference(a, b) ==
    \/ conferenceRecords[a.abbr].wins > conferenceRecords[b.abbr].wins
    \/ /\ conferenceRecords[a.abbr].wins = conferenceRecords[b.abbr].wins
       /\ conferenceRecords[a.abbr].losses < conferenceRecords[b.abbr].losses

Ahead(order, a, b) == RankOf(order, a.abbr) < RankOf(order, b.abbr)

\* the two are in the array and nobody else in it has their win percentage
OnlyTwoTied(order, a, b) ==
    /\ InStandings(order, a.abbr) /\ InStandings(order, b.abbr)
    /\ \A i \in 1..Len(order) : SamePct(order[i], a) => order[i].abbr \in { a.abbr, b.abbr }

SeededWinners == SelectSeq(call.playoffTeams, LAMBDA t : t.isDivisionWinner)

TiedPairs ==
    { p \in Range(call.standings) \X Range(call.standings) :
        p[1].abbr # p[2].abbr /\ SamePct(p[1], p[2]) /\ BetterHeadToHead(p[1], p[2]) }

\* C5 as stated: of two teams with the same win percentage the one with
\* the better head-to-head record is ahead wherever the two are compared: in
\* their division, among the division winners, among the wild card candidates.
C5_HeadToHeadEverywhere ==
    Seeded =>
        \A p \in TiedPairs :
            /\ \A d \in 1..Len(call.divisions) :
                  (InStandings(call.divisions[d], p[1].abbr) /\ InStandings(call.divisions[d], p[2].abbr))
                      => Ahead(call.divisions[d], p[1], p[2])
            /\ (InStandings(SeededWinners, p[1].abbr) /\ InStandings(SeededWinners, p[2].abbr))
                  => Ahead(SeededWinners, p[1], p[2])
            /\ (InStandings(call.wildCardPool, p[1].abbr) /\ InStandings(call.wildCardPool, p[2].abbr))
                  => Ahead(call.wildCardPool, p[1], p[2])

\* C5 amended: the head-to-head winner is ahead in the division ordering
\* when no third team of the division has the pair's win percentage, and in
\* the wild card ordering when no third candidate has it; two division
\* winners of equal win percentage are seeded by conference record, whatever
\* their head-to-head record.
C5_HeadToHeadOfTwo ==
    Seeded =>
        /\ \A p \in TiedPairs :
              /\ \A d \in 1..Len(call.divisions) :
                    OnlyTwoTied(call.divisions[d], p[1], p[2])
                        => Ahead(call.divisions[d], p[1], p[2])
              /\ OnlyTwoTied(call.wildCardPool, p[1], p[2])
                    => Ahead(call.wildCardPool, p[1], p[2])
        /\ \A i, j \in 1..Len(SeededWinners) :
              (SamePct(SeededWinners[i], SeededWinners[j])
                 /\ BetterConference(SeededWinners[i], SeededWinners[j])) => i < j

\* a seeding with a division pair whose head-to-head loser has the better
\* conference record, and with two division winners of equal win percentage
\* of which the one seeded ahead lost to the other head to head
C5_Witness ==
    /\ Seeded
    /\ \E p \in TiedPairs : \E d \in 1..Len(call.divisions) :
          OnlyTwoTied(call.divisions[d], p[1], p[2]) /\ BetterConference(p[2], p[1])
    /\ \E i, j \in 1..Len(SeededWinners) :
          /\ SamePct(SeededWinners[i], SeededWinners[j])
          /\ BetterConference(SeededWinners[i], SeededWinners[j])
          /\ BetterHeadToHead(SeededWinners[j], SeededWinners[i])

(***************************************************************************)
(* The remaining schedule: the events ESPN reports with status 'pre'       *)
(* (api.js 101-146), and the steps of a session that the specifications    *)
(* below share.                                                            *)
(***************************************************************************)
\* number of results of CompletedSchedule that are free in a session
SessionResults == 2

SessionSeasons ==
    { r \in ResultChoices : \A i \in 1..OpenResults : i > SessionResults => r[i] = "home" }

\* the games still to play in the season with Washington
WashingtonSchedule ==
    << Game("e01", 15, "GB", "CHI"), Game("e02", 15, "WSH", "KC"),
       Game("e03", 16, "CHI", "KC") >>

\* playoff-app.js 41-50 of initializeApp in the season with Washington
FetchWashington(schedule) ==
    Fetch(ResponsesOf(WashingtonSeason, schedule), "identifyCriticalGames", Null)

\* a short remaining schedule that leaves the target between a seed and a
\* miss
SearchSchedule ==
    << Game("e01", 15, "GB", "CHI"),  Game("e02", 15, "LAR", "CAR"),
       Game("e03", 15, "ATL", "NYG"), Game("e04", 15, "BAL", "KC"),
       Game("e05", 16, "CHI", "DET"), Game("e06", 16, "NYG", "LAR") >>

RemainingSchedule ==
    << Game("e01", 15, "GB", "CHI"), Game("e02", 15, "DET", "DAL"),
       Game("e03", 15, "ATL", "NYG"), Game("e04", 15, "BAL", "KC"),
       Game("e05", 16, "CHI", "HOU"), Game("e06", 16, "IND", "DEN") >>

\* the season in which every open game went to the home side
HomeWins == [ i \in 1..OpenResults |-> "home" ]

\* playoff-app.js 41-50 of initializeApp: standings, remaining games and
\* tiebreak records are fetched, for one of the seasons given
FetchRemaining(seasons, schedule) ==
    \E r \in seasons :
        Fetch(ResponsesOf(CompletedGames(r), schedule), "identifyCriticalGames", Null)

\* playoff-app.js 90-93 (and 52-53 of initializeApp)
identifyCriticalGamesHandler ==
    /\ pc = "identifyCriticalGames"
    /\ criticalGames' = identifyCriticalGames
    /\ allGames' = ScoredGames
    /\ pc' = "idle"
    /\ UNCHANGED << targetTeam, allStandings, userOutcomes, useWeightedSimulation,
                    currentBestCase, currentWorstCase, records, call >>

\* state.js 377-379: the target is assigned; the critical games of the new
\* target are identified next (identifyCriticalGamesHandler)
setTargetTeam(teamAbbr) ==
    /\ pc = "idle"
    /\ InStandings(allStandings, teamAbbr)
    /\ targetTeam' = teamAbbr
    /\ pc' = "identifyCriticalGames"
    /\ UNCHANGED << allStandings, allGames, criticalGames, userOutcomes, useWeightedSimulation,
                    currentBestCase, currentWorstCase, records, call >>

\* state.js 461-472: the session state as it is when the module is loaded;
\* the record maps of tiebreakers.js stay.  Nothing in the application calls
\* it, and the session is followed no further
resetState ==
    /\ pc = "idle"
    /\ targetTeam' = "CHI"
    /\ allStandings' = << >>
    /\ allGames' = << >>
    /\ criticalGames' = << >>
    /\ userOutcomes' = << >>
    /\ currentBestCase' = Null
    /\ currentWorstCase' = Null
    /\ useWeightedSimulation' = TRUE
    /\ pc' = "resetState"
    /\ UNCHANGED << records, call >>

(***************************************************************************)
(* SpecGames: the Critical Game Filter for every target team in turn.      *)
(***************************************************************************)
NextGames ==
    \/ FetchRemaining(SessionSeasons, RemainingSchedule)
    \/ setAllGames
    \/ conferenceRecordsLoaded
    \/ divisionRecordsLoaded
    \/ commonGamesRecordsLoaded
    \/ headToHeadRecordsLoaded
    \/ fetchRejected
    \/ identifyCriticalGamesHandler
    \/ \E teamAbbr \in Teams : setTargetTeam(teamAbbr)
    \/ resetState

SpecGames == Init /\ [][NextGames]_vars

\* the conference of a club: that of its standings entry
ConferenceOf(abbr) == Find(allStandings, abbr).conference

\* C6: every remaining game the target team plays in is a critical game,
\* and no game whose two sides are both outside the target's conference is.
C6_TargetGamesCritical ==
    pc = "idle" =>
        \A i \in 1..Len(allGames) :
            /\ (allGames[i].homeTeam = targetTeam \/ allGames[i].awayTeam = targetTeam)
                  => allGames[i].id \in Ids(criticalGames)
            /\ (/\ ConferenceOf(allGames[i].homeTeam) # ConferenceOf(targetTeam)
                /\ ConferenceOf(allGames[i].awayTeam) # ConferenceOf(targetTeam))
                  => allGames[i].id \notin Ids(criticalGames)

\* the critical games of a target hold a game it plays against a club of
\* the other conference and a game without it, while a game of two clubs
\* of the other conference, both within three wins of seventh place, is left out
C6_Witness ==
    /\ pc = "idle"
    /\ \E i, j, k \in 1..Len(allGames) :
          /\ targetTeam \in { allGames[i].homeTeam, allGames[i].awayTeam }
          /\ ConferenceOf(allGames[i].homeTeam) # ConferenceOf(allGames[i].awayTeam)
          /\ allGames[i].id \in Ids(criticalGames)
          /\ targetTeam \notin { allGames[j].homeTeam, allGames[j].awayTeam }
          /\ allGames[j].id \in Ids(criticalGames)
          /\ ConferenceOf(allGames[k].homeTeam) # ConferenceOf(targetTeam)
          /\ ConferenceOf(allGames[k].awayTeam) # ConferenceOf(targetTeam)
          /\ WildCardContention(allGames[k])
          /\ allGames[k].id \notin Ids(criticalGames)

(***************************************************************************)
(* SpecSim: the Monte Carlo pass (simulation.js 137-171) on the default    *)
(* target, for the outcomes a user has locked and either simulation mode.  *)
(* MONTE_CARLO_ITERATIONS is 1000 (constants.js); the model runs Trials    *)
(* iterations of the loop.                                                 *)
(***************************************************************************)
\* number of iterations of a sampling loop
Trials == 2

\* number of games a user locks
MaxLocks == 2

\* state.js 405-407, from an outcome button of a critical game
setUserOutcome(gameId, winner) ==
    /\ pc = "idle"
    /\ gameId \in Ids(criticalGames)
    /\ Cardinality(DOMAIN userOutcomes \cup {gameId}) <= MaxLocks
    /\ userOutcomes' = Assigned(userOutcomes, gameId :> winner)
    /\ UNCHANGED << targetTeam, allStandings, allGames, criticalGames, useWeightedSimulation,
                    currentBestCase, currentWorstCase, records, pc, call >>

\* state.js 409-411, from the reset button
removeUserOutcome(gameId) ==
    /\ pc = "idle"
    /\ Has(userOutcomes, gameId)
    /\ userOutcomes' = Removed(userOutcomes, gameId)
    /\ UNCHANGED << targetTeam, allStandings, allGames, criticalGames, useWeightedSimulation,
                    currentBestCase, currentWorstCase, records, pc, call >>

\* state.js 425-427, from a mode button
setUseWeightedSimulation(useWeighted) ==
    /\ pc = "idle"
    /\ useWeightedSimulation # useWeighted
    /\ useWeightedSimulation' = useWeighted
    /\ UNCHANGED << targetTeam, allStandings, allGames, criticalGames, userOutcomes,
                    currentBestCase, currentWorstCase, records, pc, call >>

\* 138-143; the call keeps the stored standings it finds
runMonteCarloSimulation ==
    /\ pc = "idle"
    /\ pc' = "runMonteCarloSimulation"
    /\ call' = [ i |-> 0, at |-> "sample", outcomes |-> Null, result |-> Null,
                targetPlayoffCount |-> 0, seedCounts |-> << >>, found |-> allStandings ]
    /\ UNCHANGED << session, records >>

\* 147-153: the outcomes of the trial
SampleTrial ==
    /\ pc = "runMonteCarloSimulation"
    /\ call.at = "sample"
    /\ call.i < Trials
    /\ \E outcomes \in TrialOutcomes(userOutcomes) :
          call' = [ call EXCEPT !.outcomes = outcomes, !.at = "simulate" ]
    /\ UNCHANGED << session, records, pc >>

\* 155: the call of simulateScenario ends.  A TypeError thrown by it ends
\* runMonteCarloSimulation, which catches nothing: no trial is counted and
\* nothing is returned
TrialEnds(result) ==
    IF result = TypeError
    THEN /\ pc' = "threw"
         /\ call' = [ call EXCEPT !.at = "TypeError" ]
         /\ allStandings' = StoredAfter(ScenarioCopies(call.outcomes))
    ELSE /\ pc' = pc
         /\ call' = [ call EXCEPT !.result = result, !.at = "tally" ]
         /\ allStandings' = StoredAfter(result.standings)

SimulateTrial ==
    /\ pc = "runMonteCarloSimulation"
    /\ call.at = "simulate"
    /\ TrialEnds(simulateScenario(call.outcomes))
    /\ UNCHANGED << targetTeam, allGames, criticalGames, userOutcomes, useWeightedSimulation,
                    currentBestCase, currentWorstCase, records >>

\* seedCounts[seed] = (seedCounts[seed] || 0) + 1
Tallied(seedCounts, seed) ==
    [ s \in DOMAIN seedCounts \cup {seed} |->
        IF s = seed THEN (IF Has(seedCounts, s) THEN seedCounts[s] ELSE 0) + 1
        ELSE seedCounts[s] ]

\* 157-160 and the i++ of the loop
TallyTrial ==
    /\ pc = "runMonteCarloSimulation"
    /\ call.at = "tally"
    /\ call' = [ i |-> call.i + 1, at |-> "sample", outcomes |-> Null, result |-> Null,
                targetPlayoffCount |->
                    call.targetPlayoffCount + IF call.result.targetMadePlayoffs THEN 1 ELSE 0,
                seedCounts |->
                    IF call.result.targetMadePlayoffs
                    THEN Tallied(call.seedCounts, call.result.targetSeed)
                    ELSE call.seedCounts,
                found |-> call.found ]
    /\ UNCHANGED << session, records, pc >>

\* 163-170: playoffProbability as the fraction << n, d >>
MonteCarloReturn ==
    /\ pc = "runMonteCarloSimulation"
    /\ call.at = "sample"
    /\ call.i >= Trials
    /\ pc' = "returned"
    /\ call' = [ playoffProbability |-> << call.targetPlayoffCount * 100, Trials >>,
                targetPlayoffCount |-> call.targetPlayoffCount,
                totalIterations |-> Trials,
                seedCounts |-> call.seedCounts ]
    /\ UNCHANGED << session, records >>

NextSim ==
    \/ FetchRemaining(SessionSeasons, SearchSchedule)
    \/ FetchWashington(WashingtonSchedule)
    \/ \E teamAbbr \in { "WSH" } : setTargetTeam(teamAbbr)
    \/ setAllGames
    \/ conferenceRecordsLoaded
    \/ divisionRecordsLoaded
    \/ commonGamesRecordsLoaded
    \/ headToHeadRecordsLoaded
    \/ fetchRejected
    \/ identifyCriticalGamesHandler
    \/ \E gameId \in Ids(SearchSchedule), winner \in {"home", "away"} :
          setUserOutcome(gameId, winner)
    \/ \E gameId \in Ids(SearchSchedule) : removeUserOutcome(gameId)
    \/ \E useWeighted \in BOOLEAN : setUseWeightedSimulation(useWeighted)
    \/ runMonteCarloSimulation
    \/ SampleTrial
    \/ SimulateTrial
    \/ TallyTrial
    \/ MonteCarloReturn
    \/ resetState

SpecSim == Init /\ [][NextSim]_vars

InTrial == pc = "runMonteCarloSimulation" /\ call.at \in {"simulate", "tally"}

\* C2: the assignment of every Monte Carlo trial gives each locked game its
\* locked outcome and gives every critical game an outcome, and no step of
\* the pass changes the locked outcomes.
C2_TrialsKeepLocks ==
    /\ [](InTrial =>
            /\ \A id \in DOMAIN userOutcomes : call.outcomes[id] = userOutcomes[id]
            /\ \A i \in 1..Len(criticalGames) :
                  /\ Has(call.outcomes, criticalGames[i].id)
                  /\ call.outcomes[criticalGames[i].id] \in {"home", "away"})
    /\ [][pc = "runMonteCarloSimulation" => userOutcomes' = userOutcomes]_vars

\* a trial of the second iteration with a locked game and sampled games,
\* the sample of the locked game's sides going the other way
C2_Witness ==
    /\ InTrial
    /\ call.i = 1
    /\ \E id \in DOMAIN userOutcomes : \E other \in DOMAIN call.outcomes \ DOMAIN userOutcomes :
          call.outcomes[other] # userOutcomes[id]

\* the games of the assignment a club wins, and those it loses
WinsAssigned(outcomes, abbr) ==
    Cardinality({ i \in 1..Len(criticalGames) :
        /\ Has(outcomes, criticalGames[i].id)
        /\ abbr = IF outcomes[criticalGames[i].id] = "home"
                  THEN criticalGames[i].homeTeam ELSE criticalGames[i].awayTeam })

LossesAssigned(outcomes, abbr) ==
    Cardinality({ i \in 1..Len(criticalGames) :
        /\ Has(outcomes, criticalGames[i].id)
        /\ abbr = IF outcomes[criticalGames[i].id] = "home"
                  THEN criticalGames[i].awayTeam ELSE criticalGames[i].homeTeam })

\* the records of the canonical standings, club by club
Canonical(standings) ==
    [ i \in 1..Len(standings) |->
        << standings[i].abbr, standings[i].wins, standings[i].losses, standings[i].ties,
           standings[i].winPct >> ]

\* the conference simulateScenario works in when the stored standings are
\* the ones given (simulation.js 67-68)
ConferenceIn(standings) ==
    IF InStandings(standings, targetTeam) THEN Find(standings, targetTeam).conference ELSE "NFC"

\* what simulateScenario returns for the assignment when the stored standings
\* are the ones given
SimulatedFrom(standings, outcomes) ==
    ScenarioApplied(ApplyOutcomes(standings, criticalGames, outcomes, 1, Len(criticalGames)),
                    ConferenceIn(standings))

\* C12: simulateScenario leaves the stored canonical standings unchanged (wins,
\* losses, ties and win percentage of every club), whatever the assignment
\* and whether it returns or throws; so the result of every trial of a pass
\* is the result of its assignment on the standings the pass has started
\* with, whatever was simulated before it.
C12_StandingsKept ==
    /\ [][ (pc = "runMonteCarloSimulation" /\ call.at = "simulate") =>
              Canonical(allStandings') = Canonical(allStandings) ]_vars
    /\ []((pc = "runMonteCarloSimulation" /\ call.at = "tally") =>
              /\ Canonical(allStandings) = Canonical(call.found)
              /\ call.result = SimulatedFrom(call.found, call.outcomes))

\* a second trial has been simulated and its copies differ from the stored
\* standings in the wins of the target
C12_Witness ==
    /\ pc = "runMonteCarloSimulation" /\ call.at = "tally"
    /\ call.i >= 1
    /\ userOutcomes # << >>
    /\ Find(call.result.standings, targetTeam).wins > Find(allStandings, targetTeam).wins

\* the sum of the counts of a seed distribution
RECURSIVE SumCounts(_)
SumCounts(seedCounts) ==
    IF DOMAIN seedCounts = {} THEN 0
    ELSE LET seed == CHOOSE k \in DOMAIN seedCounts : TRUE
         IN  seedCounts[seed] + SumCounts([ k \in DOMAIN seedCounts \ {seed} |-> seedCounts[k] ])

MonteCarloReturned == pc = "returned" /\ Has(call, "playoffProbability")

\* C14: runMonteCarloSimulation runs exactly the configured number of trials
\* (the call ends only by returning, after the last of them); the
\* probability it reports is made / trials * 100 with 0 <= made <= trials,
\* and the seed distribution is keyed by seeds 1 to 7 and sums to the number
\* of trials the target made the playoffs in.
C14_TrialsCounted ==
    /\ [](MonteCarloReturned =>
            /\ call.totalIterations = Trials
            /\ call.targetPlayoffCount \in 0..Trials
            /\ RatCmp(call.playoffProbability, << call.targetPlayoffCount * 100, Trials >>) = 0
            /\ DOMAIN call.seedCounts \subseteq 1..7
            /\ SumCounts(call.seedCounts) = call.targetPlayoffCount)
    /\ [][ /\ (pc = "runMonteCarloSimulation" /\ pc' # pc) =>
                  pc' = "returned" /\ call.i = Trials
           /\ (pc = "runMonteCarloSimulation" /\ call.at = "simulate") =>
                  call'.i = call.i /\ call.i < Trials
           /\ (pc = "runMonteCarloSimulation" /\ call.at = "tally") => call'.i = call.i + 1
           /\ (pc = "runMonteCarloSimulation" /\ call.at = "sample" /\ pc' = pc) =>
                  call'.i = call.i ]_vars

\* the simulation has returned with the target in the playoffs in some
\* trials and out in others
C14_Witness ==
    /\ MonteCarloReturned
    /\ call.targetPlayoffCount > 0
    /\ call.targetPlayoffCount < Trials

\* every club has its wins plus the critical games assigned to it as
\* winner, its losses plus those assigned against it, and its ties
RecordsAdded(standings, outcomes) ==
    /\ Len(standings) = Len(allStandings)
    /\ \A i \in 1..Len(allStandings) :
          LET before == allStandings[i]
              after == standings[i]
          IN  /\ after.abbr = before.abbr
              /\ after.wins = before.wins + WinsAssigned(outcomes, before.abbr)
              /\ after.losses = before.losses + LossesAssigned(outcomes, before.abbr)
              /\ after.ties = before.ties

\* C9: in the standings simulateScenario returns, every club has its wins
\* plus the critical games assigned to it as winner, its losses plus those
\* assigned against it, and its ties as they were; so have the standings
\* the call has worked on when calculatePlayoffTeams throws in it.
C9_RecordsAdded ==
    /\ (pc = "runMonteCarloSimulation" /\ call.at = "tally") =>
          RecordsAdded(call.result.standings, call.outcomes)
    /\ (pc = "threw" /\ Has(call, "outcomes")) =>
          RecordsAdded(ScenarioCopies(call.outcomes), call.outcomes)

\* a scenario in which the target, with a tie on its record, wins two games
\* and another club loses one
C9_Witness ==
    /\ pc = "runMonteCarloSimulation" /\ call.at = "tally"
    /\ Find(allStandings, targetTeam).ties > 0
    /\ WinsAssigned(call.outcomes, targetTeam) = 2
    /\ Find(call.result.standings, targetTeam).wins = Find(allStandings, targetTeam).wins + 2
    /\ \E i \in 1..Len(allStandings) : LossesAssigned(call.outcomes, allStandings[i].abbr) = 1

(***************************************************************************)
(* SpecSearch: the best case and the worst case search (simulation.js      *)
(* 180-482) on the default target, for the outcomes a user has locked, on  *)
(* a short remaining schedule and, for one season, on a long one with     *)
(* more than maxBruteForce critical games.  A search runs to its end in    *)
(* one step.  The user locks games of the first two weeks of the schedule  *)
(* (ids e01 to e06).                                                       *)
(***************************************************************************)
LongSchedule ==
    << Game("e01", 6, "GB", "CHI"),   Game("e02", 6, "DET", "DAL"),
       Game("e03", 6, "ATL", "NYG"),  Game("e04", 6, "BAL", "KC"),
       Game("e05", 7, "CHI", "HOU"),  Game("e06", 7, "IND", "DEN"),
       Game("e07", 8, "CHI", "GB"),   Game("e08", 9, "DET", "CHI"),
       Game("e09", 9, "DET", "GB"),   Game("e10", 10, "CHI", "DAL"),
       Game("e11", 11, "NYG", "CHI"), Game("e12", 12, "CHI", "ARI"),
       Game("e13", 13, "LAR", "CHI"), Game("e14", 14, "CHI", "CAR"),
       Game("e15", 15, "ATL", "CHI"), Game("e16", 16, "CHI", "IND"),
       Game("e17", 17, "CIN", "CHI"), Game("e18", 18, "CHI", "DET"),
       Game("e19", 18, "DAL", "ATL") >>

\* the season with Washington later on: Arizona has beaten the Rams eleven
\* times more
LongWashingtonSeason ==
    WashingtonSeason
      \o Array([ i \in 1..11 |-> [ home |-> "ARI", away |-> "LAR", winner |-> "ARI" ] ])

\* api.js 101-146: more than maxBruteForce games still to play, twelve of
\* them Washington's
LongWashingtonSchedule ==
    << Game("w01", 6, "WSH", "KC"),  Game("w02", 7, "KC", "WSH"),
       Game("w03", 8, "WSH", "KC"),  Game("w04", 9, "KC", "WSH"),
       Game("w05", 10, "WSH", "KC"), Game("w06", 11, "KC", "WSH"),
       Game("w07", 12, "WSH", "KC"), Game("w08", 13, "KC", "WSH"),
       Game("w09", 14, "WSH", "KC"), Game("w10", 15, "KC", "WSH"),
       Game("w11", 16, "WSH", "KC"), Game("w12", 17, "KC", "WSH"),
       Game("w13", 18, "GB", "CHI"), Game("w14", 18, "CHI", "DET"),
       Game("w15", 18, "DET", "GB") >>

\* playoff-app.js 41-50 of initializeApp in that season
FetchLongWashington ==
    Fetch(ResponsesOf(LongWashingtonSeason, LongWashingtonSchedule),
          "identifyCriticalGames", Null)

\* the club selected as target besides the default one
SearchTeams == { "WSH" }

Searching(kind) == IF kind = "best" THEN "findBestCaseHeuristic" ELSE "findWorstCaseHeuristic"

BruteForceOf(kind) == IF kind = "best" THEN "findBestCaseBruteForce" ELSE "findWorstCaseBruteForce"

\* the search ends: it returns, or the TypeError of a simulation leaves it
SearchEnds(search, returned) ==
    IF returned = TypeError
    THEN pc' = "threw" /\ call' = [ search |-> search, error |-> "TypeError" ]
    ELSE pc' = "returned" /\ call' = [ search |-> search, returned |-> returned ]

\* 187-196, 343-349: the search that runs
SearchOf(kind) ==
    IF Len(UndecidedGames(userOutcomes)) <= maxBruteForce
    THEN BruteForceOf(kind) ELSE Searching(kind)

\* 180-197, 336-350: the search, run to its end
findScenario(kind) ==
    /\ pc = "idle"
    /\ \E returned \in findScenarioOf(kind) : SearchEnds(SearchOf(kind), returned)
    /\ UNCHANGED << session, records >>

NextSearch ==
    \/ FetchRemaining(SessionSeasons, SearchSchedule)
    \/ FetchRemaining({ HomeWins }, LongSchedule)
    \/ FetchWashington(WashingtonSchedule)
    \/ FetchLongWashington
    \/ \E teamAbbr \in SearchTeams : setTargetTeam(teamAbbr)
    \/ setAllGames
    \/ conferenceRecordsLoaded
    \/ divisionRecordsLoaded
    \/ commonGamesRecordsLoaded
    \/ headToHeadRecordsLoaded
    \/ fetchRejected
    \/ identifyCriticalGamesHandler
    \/ \E gameId \in Ids(SearchSchedule), winner \in {"home", "away"} :
          setUserOutcome(gameId, winner)
    \/ \E gameId \in Ids(SearchSchedule) : removeUserOutcome(gameId)
    \/ \E kind \in {"best", "worst"} : findScenario(kind)
    \/ resetState

SpecSearch == Init /\ [][NextSearch]_vars

SearchReturned == pc = "returned" /\ "search" \in DOMAIN call

SearchThrew == pc = "threw" /\ "search" \in DOMAIN call

Exhausted(kind) == SearchReturned /\ call.search = BruteForceOf(kind)

\* every assignment of the undecided games on top of the locked outcomes
Completions(locked) ==
    { Assigned(locked, picked) :
        picked \in [ Ids(UndecidedGames(locked)) -> {"home", "away"} ] }

\* the seeds the target reaches over all of them, and whether it can miss
SeedsMade(locked) ==
    { simulateScenario(outcomes).targetSeed :
        outcomes \in { o \in Completions(locked) : simulateScenario(o).targetMadePlayoffs } }

CanMiss(locked) == \E o \in Completions(locked) : ~simulateScenario(o).targetMadePlayoffs

\* C3: the exhaustive searches return; the best case search returns the
\* scenario of one of the 2^N assignments, and if any assignment makes the
\* playoffs it makes them with the lowest seed of all.  The exhaustive worst
\* case search returns a miss if any assignment misses, and the highest seed
\* otherwise.
C3_ExhaustiveOptimal ==
    /\ ~(SearchThrew /\ call.search \in { BruteForceOf("best"), BruteForceOf("worst") })
    /\ Exhausted("best") =>
          /\ call.returned.outcomes \in Completions(userOutcomes)
          /\ call.returned.result = simulateScenario(call.returned.outcomes)
          /\ SeedsMade(userOutcomes) # {} =>
                /\ call.returned.result.targetMadePlayoffs
                /\ \A seed \in SeedsMade(userOutcomes) : call.returned.result.targetSeed <= seed
    /\ Exhausted("worst") =>
          /\ call.returned.outcomes \in Completions(userOutcomes)
          /\ call.returned.result = simulateScenario(call.returned.outcomes)
          /\ CanMiss(userOutcomes) => ~call.returned.result.targetMadePlayoffs
          /\ ~CanMiss(userOutcomes) =>
                \A seed \in SeedsMade(userOutcomes) : call.returned.result.targetSeed >= seed

\* a best case found with a locked game, when the assignments reach three
\* seeds or more, some miss, and the first combination is not the best
C3_Witness ==
    /\ Exhausted("best")
    /\ userOutcomes # << >>
    /\ Cardinality(SeedsMade(userOutcomes)) >= 3
    /\ CanMiss(userOutcomes)
    /\ call.returned.outcomes # Combination(userOutcomes, UndecidedGames(userOutcomes), 0)

KeepsLocks(outcomes) ==
    \A id \in DOMAIN userOutcomes : Has(outcomes, id) /\ outcomes[id] = userOutcomes[id]

\* C4: the assignment a search returns gives every locked game its locked
\* outcome, and a search does not change the locked outcomes, whether it
\* returns or a simulation throws.
C4_SearchKeepsLocks ==
    /\ [](SearchReturned => KeepsLocks(call.returned.outcomes))
    /\ [][pc' \in { "returned", "threw" } => userOutcomes' = userOutcomes]_vars

\* a heuristic and an exhaustive search have returned with two games
\* locked, one of them a game of the target locked against the outcome
\* the search would give it
C4_Witness ==
    /\ SearchReturned
    /\ call.search \in { Searching("best"), BruteForceOf("worst") }
    /\ Cardinality(DOMAIN userOutcomes) = 2
    /\ \E i \in 1..Len(criticalGames) :
          /\ Has(userOutcomes, criticalGames[i].id)
          /\ targetTeam \in { criticalGames[i].homeTeam, criticalGames[i].awayTeam }
          /\ (userOutcomes[criticalGames[i].id] = "home")
                = ((criticalGames[i].homeTeam = targetTeam) = (call.search = BruteForceOf("worst")))

\* the outcome of a game of the target that the target wins
TargetWins(game) == IF game.homeTeam = targetTeam THEN "home" ELSE "away"

\* the locked games of the target that are locked as a loss of the target
LockedTargetLosses ==
    { i \in 1..Len(criticalGames) :
        /\ targetTeam \in { criticalGames[i].homeTeam, criticalGames[i].awayTeam }
        /\ Has(userOutcomes, criticalGames[i].id)
        /\ userOutcomes[criticalGames[i].id] # TargetWins(criticalGames[i]) }

\* what the exhaustive best case search returns with game i locked as a
\* win, or TypeError
BestCaseWithWin(i) ==
    BruteForce("best",
               Assigned(userOutcomes, criticalGames[i].id :> TargetWins(criticalGames[i])),
               UndecidedGames(userOutcomes))

\* C7: with one locked loss of the target changed to a win, the other
\* locked outcomes as they are, the exhaustive best case search finds a
\* best case that still makes the playoffs if it did, with a seed that is
\* not higher.
C7_WinNotWorse ==
    Exhausted("best") =>
        \A i \in LockedTargetLosses :
            /\ BestCaseWithWin(i) # TypeError
            /\ call.returned.result.targetMadePlayoffs =>
                  /\ BestCaseWithWin(i).result.targetMadePlayoffs
                  /\ BestCaseWithWin(i).result.targetSeed <= call.returned.result.targetSeed

\* a best case with a locked loss of the target and another locked game,
\* where the win gives a lower seed
C7_Witness ==
    /\ Exhausted("best")
    /\ Cardinality(DOMAIN userOutcomes) = 2
    /\ call.returned.result.targetMadePlayoffs
    /\ \E i \in LockedTargetLosses :
          /\ BestCaseWithWin(i) # TypeError
          /\ BestCaseWithWin(i).result.targetSeed < call.returned.result.targetSeed

Covers(outcomes) ==
    \A i \in 1..Len(criticalGames) :
        /\ Has(outcomes, criticalGames[i].id)
        /\ outcomes[criticalGames[i].id] \in {"home", "away"}

\* C10: a search is heuristic exactly when more than maxBruteForce critical
\* games are undecided; the heuristic search does not throw and returns a
\* scenario, with an assignment of every critical game.
C10_HeuristicReturns ==
    /\ ~(SearchThrew /\ call.search \in { Searching("best"), Searching("worst") })
    /\ SearchReturned =>
          /\ (call.search \in { Searching("best"), Searching("worst") })
                = (Len(UndecidedGames(userOutcomes)) > maxBruteForce)
          /\ call.returned.result # Null
          /\ call.returned.result.targetMadePlayoffs \in BOOLEAN
          /\ Covers(call.returned.outcomes)

\* the worst case heuristic has returned with exactly fifteen games undecided
C10_Witness ==
    /\ SearchReturned
    /\ call.search = Searching("worst")
    /\ Len(UndecidedGames(userOutcomes)) = maxBruteForce + 1
    /\ Len(call.returned.gamesSet) = Len(criticalGames)

(***************************************************************************)
(* SpecRecords: the Seeding Resolver when the client finds no tiebreaker   *)
(* records for some clubs.  Each of the four routes answers on its own     *)
(* with status 500 and the body {error: message} when it throws            *)
(* (server.js 476-478, 527-529, 641-644, 721-724); fetchTiebreakRecords    *)
(* stores the body whatever the status.  The rows of the games table name  *)
(* a club by ESPN's abbreviation (app.js 289-290), the routes look it up   *)
(* in TEAM_INFO (server.js 385-428): Washington is WSH in the rows and in  *)
(* the client's DIVISION_MAP, WAS in TEAM_INFO and TEAM_NAME_TO_ABBR.      *)
(***************************************************************************)
Routes == { "conference-records", "division-records", "common-games", "head-to-head" }

\* the routes that answer with status 500: each route fails on its own
FailedChoices == SUBSET Routes

\* the tables the routes read: the seasons of a session, the season with
\* Washington before and after its win over Kansas City, and the early one
RecordTables ==
    { CompletedGames(r) : r \in SessionSeasons }
        \cup { WashingtonSeason, WashingtonSeason \o WashingtonWin, EarlyGames }

\* res.status(500).json({ error: error.message }): the object a map is then;
\* the key of a map of pairs is the key split at "_vs_"
ErrorBody(route) ==
    IF route \in { "common-games", "head-to-head" } THEN << "error" >> :> "message"
    ELSE [ error |-> "message" ]

\* what the route answers with
Answer(route, failed, map) == IF route \in failed THEN ErrorBody(route) ELSE map

\* tiebreakers.js 17-39 fetchTiebreakRecords, with api.js fetchStandings
FetchRecords ==
    \E rows \in RecordTables, failed \in FailedChoices :
        Fetch(Responses(fetchStandings(rows), << >>,
                        Answer("conference-records", failed,
                               ConferenceRecordsOf(TEAM_INFO, StoredRows(rows))),
                        Answer("division-records", failed,
                               DivisionRecordsOf(TEAM_INFO, StoredRows(rows))),
                        Answer("common-games", failed,
                               CommonGamesOf(TEAM_INFO, StoredRows(rows))),
                        Answer("head-to-head", failed,
                               HeadToHeadOf(TEAM_INFO, StoredRows(rows)))),
              "resolve", Null)

\* playoff-calculator.js 147-305: the call returns
Resolve(conference) ==
    /\ pc = "resolve"
    /\ LET seeded == calculatePlayoffTeams(getConferenceStandings(conference)) IN
       /\ ~Throws(seeded)
       /\ call' = [ conference |-> conference, playoffTeams |-> seeded.playoffTeams,
                    wildCardPool |-> seeded.wildCardPool, divisions |-> seeded.divisions ]
       /\ allStandings' = Marked(seeded.standings)
    /\ pc' = "resolved"
    /\ UNCHANGED << targetTeam, allGames, criticalGames, userOutcomes, useWeightedSimulation,
                    currentBestCase, currentWorstCase, records >>

\* playoff-calculator.js 163-245: the call throws; the reasons set on the
\* team objects of the divisions before the throw stay
ResolveThrows(conference) ==
    /\ pc = "resolve"
    /\ LET seeded == calculatePlayoffTeams(getConferenceStandings(conference)) IN
       /\ Throws(seeded)
       /\ call' = [ conference |-> conference, error |-> "TypeError" ]
       /\ allStandings' = Marked(SelectSeq(Flatten(seeded.divisions), LAMBDA t :
                              t.tiebreakReason = Null \/ t.tiebreakReason.how # "TypeError"))
    /\ pc' = "threw"
    /\ UNCHANGED << targetTeam, allGames, criticalGames, userOutcomes, useWeightedSimulation,
                    currentBestCase, currentWorstCase, records >>

NextRecords ==
    \/ FetchRecords
    \/ setAllGames
    \/ conferenceRecordsLoaded
    \/ divisionRecordsLoaded
    \/ commonGamesRecordsLoaded
    \/ headToHeadRecordsLoaded
    \/ fetchRejected
    \/ \E conference \in {"NFC", "AFC"} : Resolve(conference)
    \/ \E conference \in {"NFC", "AFC"} : ResolveThrows(conference)

SpecRecords == Init /\ [][NextRecords]_vars

\* some club of the conference resolved has no conference record
RecordsAbsent ==
    \E i \in 1..Len(allStandings) :
        allStandings[i].conference = call.conference /\ ~Has(conferenceRecords, allStandings[i].abbr)

\* C1: for any conference standings, calculatePlayoffTeams returns exactly
\* seven entries, four of them division winners and three wild cards, with
\* the seeds 1..7, each once, and no team twice.
C1_SevenSeeds ==
    pc \in { "resolved", "threw" } =>
        /\ pc = "resolved"
        /\ Len(call.playoffTeams) = 7
        /\ Cardinality({ i \in 1..Len(call.playoffTeams) :
                           call.playoffTeams[i].isDivisionWinner }) = 4
        /\ Cardinality({ i \in 1..Len(call.playoffTeams) :
                           call.playoffTeams[i].isWildCard }) = 3
        /\ \A i \in 1..Len(call.playoffTeams) :
              call.playoffTeams[i].isDivisionWinner # call.playoffTeams[i].isWildCard
        /\ { call.playoffTeams[i].seed : i \in 1..Len(call.playoffTeams) } = 1..7
        /\ \A i, j \in 1..Len(call.playoffTeams) :
              i # j => /\ call.playoffTeams[i].seed # call.playoffTeams[j].seed
                       /\ call.playoffTeams[i].abbr # call.playoffTeams[j].abbr
                       /\ call.playoffTeams[i].id # call.playoffTeams[j].id

\* a conference of more than seven clubs has been seeded with seven teams,
\* with a tie among the wild card candidates resolved by a tiebreaker
C1_Witness ==
    /\ pc = "resolved"
    /\ Len(getConferenceStandings(call.conference)) > 7
    /\ Len(call.playoffTeams) = 7
    /\ \E i \in 1..Len(call.playoffTeams) :
          /\ call.playoffTeams[i].isWildCard
          /\ call.playoffTeams[i].tiebreakReason # Null

\* C11: the Seeding Resolver never throws because tiebreaker records are
\* absent: whatever records the client holds, calculatePlayoffTeams returns.
C11_NeverThrows == pc # "threw"

\* the resolver has returned seven seeds without any record, and with the
\* records of one club of the conference absent
C11_Witness ==
    /\ pc = "resolved"
    /\ RecordsAbsent
    /\ Len(call.playoffTeams) = 7

(***************************************************************************)
(* SpecOutcome: single calls of getGameOutcome on the games of the         *)
(* remaining schedule, in either simulation mode.                          *)
(***************************************************************************)
\* simulation.js 22-48: one call, with the probability it draws against
PredictOutcome(i) ==
    /\ pc = "idle"
    /\ i \in 1..Len(allGames)
    /\ \E outcome \in getGameOutcome(allGames[i]) :
          call' = [ game |-> allGames[i], homeProb |-> OutcomeProb(allGames[i]),
                    outcome |-> outcome ]
    /\ pc' = "getGameOutcome"
    /\ UNCHANGED << session, records >>

\* the records ESPN reports in a later week; MIN has no record that week
WeekRecord(t) ==
    CASE t = "GB"  -> << 10, 0, 0 >>
      [] t = "CHI" -> << 0, 9, 1 >>
      [] t = "DET" -> << 0, 10, 0 >>
      [] OTHER     -> << 5, 5, 0 >>

\* api.js 41-97 fetchStandings for that week
WeekStandings ==
    ArraySort("standings",
        Array([ i \in 1..(Len(TeamOrder) - 1) |->
            Team(TeamOrder[i], WeekRecord(TeamOrder[i])[1], WeekRecord(TeamOrder[i])[2],
                 WeekRecord(TeamOrder[i])[3]) ]))

\* api.js 101-146: the games still to play
WeekSchedule ==
    << Game("e01", 12, "GB", "CHI"), Game("e02", 12, "MIN", "DET"),
       Game("e03", 12, "DAL", "MIN"), Game("e04", 12, "DET", "GB") >>

\* playoff-app.js 41-50: the fetches of initializeApp in that week, the
\* server having no finished game of the season
FetchWeek ==
    Fetch(Responses(WeekStandings, WeekSchedule, ConferenceRecordsOf(TEAM_INFO, << >>),
                    DivisionRecordsOf(TEAM_INFO, << >>), CommonGamesOf(TEAM_INFO, << >>),
                    HeadToHeadOf(TEAM_INFO, << >>)),
          "identifyCriticalGames", Null)

NextOutcome ==
    \/ FetchRemaining(ResultChoices, RemainingSchedule)
    \/ FetchWeek
    \/ setAllGames
    \/ conferenceRecordsLoaded
    \/ divisionRecordsLoaded
    \/ commonGamesRecordsLoaded
    \/ headToHeadRecordsLoaded
    \/ fetchRejected
    \/ identifyCriticalGamesHandler
    \/ \E useWeighted \in BOOLEAN : setUseWeightedSimulation(useWeighted)
    \/ \E i \in 1..Len(RemainingSchedule) : PredictOutcome(i)
    \/ resetState

SpecOutcome == Init /\ [][NextOutcome]_vars

\* the two clubs of the game predicted have a win percentage of one half
EvenGame ==
    /\ pc = "getGameOutcome"
    /\ useWeightedSimulation
    /\ InStandings(allStandings, call.game.homeTeam)
    /\ InStandings(allStandings, call.game.awayTeam)
    /\ RatCmp(Find(allStandings, call.game.homeTeam).winPct, << 1, 2 >>) = 0
    /\ RatCmp(Find(allStandings, call.game.awayTeam).winPct, << 1, 2 >>) = 0

\* C13: in the weighted mode, with a home and an away win percentage of 0.5
\* and the home field advantage of 0.05, the home club wins with probability
\* exactly 0.55.
C13_EvenGame == EvenGame => RatCmp(call.homeProb, << 55, 100 >>) = 0

\* an even game was predicted in the weighted mode, and the away club drawn
C13_Witness == EvenGame /\ call.outcome = "away"

(***************************************************************************)
(* The handler of a team selection, followed statement by statement up to  *)
(* the entry of the calculation pass (SpecSession, below, runs it).        *)
(***************************************************************************)
\* state.js 413-415
clearUserOutcomes == << >>

\* part_004 474-475: setTargetTeam(teamAbbr); clearUserOutcomes().  The call
\* keeps what the handler found: the target, the locks and the critical games
selectTeamHandler(teamAbbr) ==
    /\ pc = "idle"
    /\ InStandings(allStandings, teamAbbr)
    /\ targetTeam' = teamAbbr
    /\ userOutcomes' = clearUserOutcomes
    /\ pc' = "selectTeamHandler"
    /\ call' = [ at |-> "onIdentifyCritical", teamAbbr |-> teamAbbr, pass |-> "pending",
                 found |-> [ targetTeam |-> targetTeam, userOutcomes |-> userOutcomes,
                             criticalGames |-> Ids(criticalGames) ] ]
    /\ UNCHANGED << allStandings, allGames, criticalGames, useWeightedSimulation,
                    currentBestCase, currentWorstCase, records >>

\* part_004 476, playoff-app.js 90-93
onIdentifyCritical ==
    /\ pc = "selectTeamHandler"
    /\ call.at = "onIdentifyCritical"
    /\ criticalGames' = identifyCriticalGames
    /\ allGames' = ScoredGames
    /\ call' = [ call EXCEPT !.at = "onRenderApp" ]
    /\ UNCHANGED << targetTeam, allStandings, userOutcomes, useWeightedSimulation,
                    currentBestCase, currentWorstCase, records, pc >>

\* part_004 477, 29-96: renderApp; an error thrown there ends the handler,
\* and the page waits for the next event
onRenderApp ==
    /\ pc = "selectTeamHandler"
    /\ call.at = "onRenderApp"
    /\ allStandings' = RenderedStandings
    /\ IF renderBothStandings.threw
       THEN pc' = "idle" /\ call' = [ call EXCEPT !.at = "TypeError" ]
       ELSE pc' = pc /\ call' = [ call EXCEPT !.at = "onCalculateScenarios" ]
    /\ UNCHANGED << targetTeam, allGames, criticalGames, userOutcomes, useWeightedSimulation,
                    currentBestCase, currentWorstCase, records >>

\* part_004 478, playoff-app.js 123-125: the calculation pass is entered
onCalculateScenarios ==
    /\ pc = "selectTeamHandler"
    /\ call.at = "onCalculateScenarios"
    /\ pc' = "calculateAndDisplayScenarios"
    /\ UNCHANGED << session, records, call >>

(***************************************************************************)
(* SpecRanks: the exhaustive searches for every target team, after the     *)
(* user has selected it; a search returns, or the TypeError of one of its  *)
(* simulations leaves it.                                                  *)
(***************************************************************************)
\* a week in which the clubs have played different numbers of games: the
\* records ESPN reports, wins, losses, ties
LateRecord(t) ==
    CASE t = "CAR"                      -> << 3, 4, 0 >>
      [] t \in {"ATL", "NYG", "LAR"}    -> << 2, 1, 0 >>
      [] t \in {"CHI", "DET"}           -> << 4, 1, 0 >>
      [] t \in {"GB", "DAL", "ARI"}     -> << 5, 0, 0 >>
      [] OTHER                          -> << 3, 3, 0 >>

\* api.js 41-97 fetchStandings for that week
LateStandings ==
    ArraySort("standings",
        Array([ i \in 1..Len(TeamOrder) |->
            Team(TeamOrder[i], LateRecord(TeamOrder[i])[1], LateRecord(TeamOrder[i])[2],
                 LateRecord(TeamOrder[i])[3]) ]))

\* api.js 101-146: the two games still to play
LateSchedule == << Game("e01", 18, "ARI", "LAR"), Game("e02", 18, "NYG", "ATL") >>

\* playoff-app.js 41-50: the fetches of initializeApp in that week, the
\* server having no finished game of the season
FetchLate ==
    Fetch(Responses(LateStandings, LateSchedule, ConferenceRecordsOf(TEAM_INFO, << >>),
                    DivisionRecordsOf(TEAM_INFO, << >>), CommonGamesOf(TEAM_INFO, << >>),
                    HeadToHeadOf(TEAM_INFO, << >>)),
          "identifyCriticalGames", Null)

NextRanks ==
    \/ FetchRemaining(SessionSeasons, SearchSchedule)
    \/ FetchWashington(WashingtonSchedule)
    \/ FetchLate
    \/ setAllGames
    \/ conferenceRecordsLoaded
    \/ divisionRecordsLoaded
    \/ commonGamesRecordsLoaded
    \/ headToHeadRecordsLoaded
    \/ fetchRejected
    \/ identifyCriticalGamesHandler
    \/ \E teamAbbr \in Teams : setTargetTeam(teamAbbr)
    \/ \E kind \in {"best", "worst"} : findScenario(kind)
    \/ resetState

SpecRanks == Init /\ [][NextRanks]_vars

\* the ranks of a: both no higher than those of b, and one lower
RanksBelow(a, b) ==
    /\ a.targetWildcardRank <= b.targetWildcardRank
    /\ a.targetDivisionRank <= b.targetDivisionRank
    /\ \/ a.targetWildcardRank < b.targetWildcardRank
       \/ a.targetDivisionRank < b.targetDivisionRank

\* no assignment of the undecided games puts the target in the playoffs
AllMiss == \A o \in Completions(userOutcomes) : ~simulateScenario(o).targetMadePlayoffs

\* C16: when no assignment makes the playoffs, no assignment has ranks below
\* those of the exhaustive best case, and none that misses has ranks above
\* those of the exhaustive worst case.
C16_RanksNotDominated ==
    /\ (Exhausted("best") /\ AllMiss) =>
          \A o \in Completions(userOutcomes) :
              ~RanksBelow(simulateScenario(o), call.returned.result)
    /\ (Exhausted("worst") /\ CanMiss(userOutcomes)) =>
          \A o \in Completions(userOutcomes) :
              ~simulateScenario(o).targetMadePlayoffs =>
                  ~RanksBelow(call.returned.result, simulateScenario(o))

\* an exhaustive best case search has returned for a target that no
\* assignment puts in the playoffs
C16_Witness == Exhausted("best") /\ AllMiss /\ Len(criticalGames) >= 2

(***************************************************************************)
(* SpecDivision: the Seeding Resolver later in the season, when the clubs  *)
(* of a division have played different numbers of division games.         *)
(***************************************************************************)
\* rows of the games table after those of CompletedSchedule
LaterGames ==
    << [ home |-> "CHI", away |-> "MIN", winner |-> "CHI" ],
       [ home |-> "MIN", away |-> "CHI", winner |-> "CHI" ],
       [ home |-> "DET", away |-> "HOU", winner |-> "DET" ],
       [ home |-> "DET", away |-> "IND", winner |-> "DET" ],
       [ home |-> "KC",  away |-> "DET", winner |-> "KC" ] >>

\* playoff-app.js 41-50: the fetches of initializeApp
FetchLater ==
    \E r \in ResultChoices :
        Fetch(ResponsesOf(CompletedGames(r) \o LaterGames, << >>), "seed",
              [ runs |-> 0, standings |-> << >>, playoffTeams |-> << >>, previous |-> << >>,
                divisions |-> << >>, wildCardPool |-> << >> ])

NextDivision ==
    \/ FetchLater
    \/ setAllGames
    \/ conferenceRecordsLoaded
    \/ divisionRecordsLoaded
    \/ commonGamesRecordsLoaded
    \/ headToHeadRecordsLoaded
    \/ fetchRejected
    \/ \E conference \in {"NFC", "AFC"} : Seed(conference)

SpecDivision == Init /\ [][NextDivision]_vars

\* the comparator's head-to-head step (tiebreakers.js 264-273) decides
\* nothing between the two
HeadToHeadInconclusive(a, b) ==
    ~ /\ Has(headToHeadRecords, << a.abbr, b.abbr >>)
      /\ Has(headToHeadRecords, << b.abbr, a.abbr >>)
      /\ DiffExceeds(headToHeadRecords[<< b.abbr, a.abbr >>].winPct,
                     headToHeadRecords[<< a.abbr, b.abbr >>].winPct, 1, 1000)

DivisionGames(t) ==
    divisionRecords[t.abbr].wins + divisionRecords[t.abbr].losses + divisionRecords[t.abbr].ties

\* the win percentage of a club's division record, a tie half a win
DivisionPct(t) ==
    << 2 * divisionRecords[t.abbr].wins + divisionRecords[t.abbr].ties, 2 * DivisionGames(t) >>

\* two clubs of division d, alone on their win percentage, that the
\* head-to-head step does not separate and that have played division games
TiedInDivision(d, a, b) ==
    /\ a.abbr # b.abbr
    /\ OnlyTwoTied(call.divisions[d], a, b)
    /\ SamePct(a, b)
    /\ HeadToHeadInconclusive(a, b)
    /\ Has(divisionRecords, a.abbr) /\ Has(divisionRecords, b.abbr)
    /\ DivisionGames(a) > 0 /\ DivisionGames(b) > 0

\* C17: two clubs of a division tied on win percentage, the head-to-head
\* step inconclusive, are ordered by the win percentage of their division
\* records, whatever the numbers of division games they have played.
C17_DivisionPercentage ==
    Seeded =>
        \A d \in 1..Len(call.divisions) :
            \A a, b \in Range(call.divisions[d]) :
                (TiedInDivision(d, a, b) /\ RatCmp(DivisionPct(a), DivisionPct(b)) > 0)
                    => Ahead(call.divisions[d], a, b)

\* a division seeded with such a pair, the club of the better division
\* percentage having played fewer division games than the other
C17_Witness ==
    /\ Seeded
    /\ \E d \in 1..Len(call.divisions) :
          \E a, b \in Range(call.divisions[d]) :
              /\ TiedInDivision(d, a, b)
              /\ RatCmp(DivisionPct(a), DivisionPct(b)) > 0
              /\ DivisionGames(a) < DivisionGames(b)

(***************************************************************************)
(* SpecWildCard: the wild card pool of one conference, its tied groups     *)
(* resolved by breakTieMultiTeam (playoff-calculator.js 248-290), over     *)
(* seasons in which clubs of different divisions have met.                 *)
(***************************************************************************)
\* rows of the games table after those of CompletedSchedule
PoolGames ==
    << [ home |-> "KC",  away |-> "NYG", winner |-> "KC" ],
       [ home |-> "LAR", away |-> "HOU", winner |-> "LAR" ],
       [ home |-> "CAR", away |-> "HOU", winner |-> "CAR" ],
       [ home |-> "CAR", away |-> "IND", winner |-> "CAR" ],
       [ home |-> "CAR", away |-> "BUF", winner |-> "CAR" ],
       [ home |-> "CAR", away |-> "DEN", winner |-> "CAR" ] >>

ShortPoolGames ==
    << [ home |-> "CAR", away |-> "HOU", winner |-> "CAR" ],
       [ home |-> "KC",  away |-> "CAR", winner |-> "KC" ] >>

PoolSeasons == { PoolGames, ShortPoolGames }

FetchPool ==
    \E r \in ResultChoices, later \in PoolSeasons :
        Fetch(ResponsesOf(CompletedGames(r) \o later, << >>), "renderStandings", Null)

\* the pool as the wild card sort leaves it, and as breakTieMultiTeam does
PoolOf(conference, seeded) ==
    [ conference |-> conference, playoffTeams |-> seeded.playoffTeams,
      sortedPool |-> seeded.sortedPool, wildCardPool |-> seeded.wildCardPool ]

\* part_004 137-237: renderStandings; call keeps the pool of its call of
\* calculatePlayoffTeams
ResolvePool(conference) ==
    /\ pc = "renderStandings"
    /\ call' = PoolOf(conference, calculatePlayoffTeams(getConferenceStandings(conference)))
    /\ allStandings' = Marked(renderStandings(conference).teams)
    /\ pc' = IF renderStandings(conference).threw THEN "error" ELSE "breakTieMultiTeam"
    /\ UNCHANGED << targetTeam, allGames, criticalGames, userOutcomes, useWeightedSimulation,
                    currentBestCase, currentWorstCase, records >>

NextWildCard ==
    \/ FetchPool
    \/ setAllGames
    \/ conferenceRecordsLoaded
    \/ divisionRecordsLoaded
    \/ commonGamesRecordsLoaded
    \/ headToHeadRecordsLoaded
    \/ fetchRejected
    \/ \E conference \in {"NFC", "AFC"} : ResolvePool(conference)

SpecWildCard == Init /\ [][NextWildCard]_vars

PoolResolved == pc = "breakTieMultiTeam"

\* the teams that remain when position p of the resolved pool is emitted:
\* the teams of its tied group not emitted before it, in group order
Remainder(p) ==
    SelectSeq(call.sortedPool, LAMBDA t :
        /\ RatCmp(t.winPct, call.wildCardPool[p].winPct) = 0
        /\ \A q \in 1..(p - 1) : call.wildCardPool[q].abbr # t.abbr)

Played(a, b) ==
    /\ Has(headToHeadRecords, << a, b >>)
    /\ headToHeadRecords[<< a, b >>].wins + headToHeadRecords[<< a, b >>].losses
         + headToHeadRecords[<< a, b >>].ties > 0

WinningRecord(a, b) ==
    Played(a, b) /\ RatCmp(headToHeadRecords[<< a, b >>].winPct, << 1, 2 >>) > 0

\* positions of the teams with a winning record against every other one
SweepersOf(rem) ==
    { i \in 1..Len(rem) :
        \A j \in 1..Len(rem) : j # i => WinningRecord(rem[i].abbr, rem[j].abbr) }

WonBySweep(t) == t.tiebreakReason # Null /\ t.tiebreakReason.how = "head-to-head sweep"

\* C18: in a tied group of the wild card pool, when some remaining team has
\* a winning head-to-head record, with at least one game, against every
\* other remaining team, the first such team in group order is the next one
\* emitted, round after round; and a team emitted by sweep has played, and
\* has a winning record against, every other remaining team.
C18_SweepFirst ==
    PoolResolved =>
        \A p \in 1..Len(call.wildCardPool) :
            Len(Remainder(p)) >= 2 =>
                /\ SweepersOf(Remainder(p)) # {} =>
                      /\ call.wildCardPool[p].abbr =
                           Remainder(p)[CHOOSE i \in SweepersOf(Remainder(p)) :
                                            \A j \in SweepersOf(Remainder(p)) : i <= j].abbr
                      /\ WonBySweep(call.wildCardPool[p])
                /\ WonBySweep(call.wildCardPool[p]) =>
                      \A j \in 1..Len(Remainder(p)) :
                          Remainder(p)[j].abbr # call.wildCardPool[p].abbr =>
                              WinningRecord(call.wildCardPool[p].abbr, Remainder(p)[j].abbr)

\* a group of three or more whose sweeper is not the first of the group
C18_Witness ==
    /\ PoolResolved
    /\ \E p \in 1..Len(call.wildCardPool) :
          /\ Len(Remainder(p)) >= 3
          /\ SweepersOf(Remainder(p)) # {}
          /\ 1 \notin SweepersOf(Remainder(p))
          /\ WonBySweep(call.wildCardPool[p])

\* conference record a is better than b: more wins, or as many and fewer losses
BetterRecord(a, b) ==
    \/ conferenceRecords[a].wins > conferenceRecords[b].wins
    \/ /\ conferenceRecords[a].wins = conferenceRecords[b].wins
       /\ conferenceRecords[a].losses < conferenceRecords[b].losses

\* positions of the remaining teams no other remaining team has a better
\* conference record than
BestRecorded(rem) ==
    { i \in 1..Len(rem) :
        /\ Has(conferenceRecords, rem[i].abbr)
        /\ \A j \in 1..Len(rem) :
              Has(conferenceRecords, rem[j].abbr) => ~BetterRecord(rem[j].abbr, rem[i].abbr) }

NoSweepRound(p) == Len(Remainder(p)) >= 2 /\ SweepersOf(Remainder(p)) = {}

\* C19: in a round of a tied wild card group without a sweep, the team with
\* the best conference record is the next one emitted when no other
\* remaining team has the same conference record; otherwise the first
\* remaining team in group order is emitted.
C19_ConferenceRecordUnique ==
    PoolResolved =>
        \A p \in 1..Len(call.wildCardPool) :
            NoSweepRound(p) =>
                IF Cardinality(BestRecorded(Remainder(p))) = 1
                THEN call.wildCardPool[p].abbr =
                         Remainder(p)[CHOOSE i \in BestRecorded(Remainder(p)) : TRUE].abbr
                ELSE call.wildCardPool[p].abbr = Remainder(p)[1].abbr

\* a round without a sweep whose best conference record is that of one team
\* only, not the first of the group, and a round in which two teams share
\* the best conference record and the first, not one of them, is emitted
C19_Witness ==
    /\ PoolResolved
    /\ \E p \in 1..Len(call.wildCardPool) :
          /\ NoSweepRound(p)
          /\ Len(Remainder(p)) >= 3
          /\ Cardinality(BestRecorded(Remainder(p))) = 1
          /\ 1 \notin BestRecorded(Remainder(p))
    /\ \E p \in 1..Len(call.wildCardPool) :
          /\ NoSweepRound(p)
          /\ Cardinality(BestRecorded(Remainder(p))) > 1
          /\ 1 \notin BestRecorded(Remainder(p))

(***************************************************************************)
(* The impact score 60 of the Critical Game Filter, under SpecGames.       *)
(***************************************************************************)
DivisionOf(abbr) == Find(allStandings, abbr).division

WithoutTarget(game) == game.homeTeam # targetTeam /\ game.awayTeam # targetTeam

\* one side of the game is in the target's division, and other is the other side
OneInDivision(game, side, other) ==
    /\ { side, other } = { game.homeTeam, game.awayTeam }
    /\ DivisionOf(side) = DivisionOf(targetTeam)
    /\ DivisionOf(other) # DivisionOf(targetTeam)

ScoredSixty == { g \in Range(criticalGames) : g.impact.score = 60 }

\* C20: a critical game with impact score 60 is without the target team,
\* has exactly one side in the target's division, and its other side is in
\* the target's conference.
C20_SixtyInConference ==
    pc = "idle" =>
        \A g \in ScoredSixty :
            /\ WithoutTarget(g)
            /\ \E side, other \in Teams :
                  /\ OneInDivision(g, side, other)
                  /\ ConferenceOf(other) = ConferenceOf(targetTeam)

\* a game scored 60 whose other side is of the other conference, next to one
\* whose other side is of the target's conference
C20_Witness ==
    /\ pc = "idle"
    /\ \E g \in ScoredSixty : \E side, other \in Teams :
          /\ OneInDivision(g, side, other)
          /\ ConferenceOf(other) # ConferenceOf(targetTeam)
    /\ \E g \in ScoredSixty : \E side, other \in Teams :
          /\ OneInDivision(g, side, other)
          /\ ConferenceOf(other) = ConferenceOf(targetTeam)

(***************************************************************************)
(* The impact score 40 of the Critical Game Filter, under SpecGames.       *)
(***************************************************************************)
OutsideDivision(game) ==
    /\ DivisionOf(game.homeTeam) # DivisionOf(targetTeam)
    /\ DivisionOf(game.awayTeam) # DivisionOf(targetTeam)

SideInConference(game) ==
    \/ ConferenceOf(game.homeTeam) = ConferenceOf(targetTeam)
    \/ ConferenceOf(game.awayTeam) = ConferenceOf(targetTeam)

\* the standings of the target's conference, in the order of the standings
TargetConferenceStandings ==
    SelectSeq(allStandings, LAMBDA t : t.conference = ConferenceOf(targetTeam))

\* both sides are within WINS_IN_CONTENTION wins of the seventh of the
\* target's conference
NearConferenceSeventh(game) ==
    /\ Len(TargetConferenceStandings) >= 7
    /\ \A abbr \in { game.homeTeam, game.awayTeam } :
          Abs(Find(allStandings, abbr).wins - TargetConferenceStandings[7].wins)
            <= WINS_IN_CONTENTION

ListedWithForty(game) ==
    \E g \in Range(criticalGames) : g.id = game.id /\ g.impact.score = 40

\* C21: a remaining game without the target and with neither side in the
\* target's division is in the critical list, with score 40, exactly when
\* it has a side in the target's conference and both of its sides are
\* within 3 wins of the seventh place of the target's conference standings.
C21_ContentionOfConference ==
    pc = "idle" =>
        \A i \in 1..Len(allGames) :
            (WithoutTarget(allGames[i]) /\ OutsideDivision(allGames[i])) =>
                (ListedWithForty(allGames[i])
                   <=> (SideInConference(allGames[i]) /\ NearConferenceSeventh(allGames[i])))

\* a game outside the target's division is listed with score 40, and the
\* seventh of the target's conference has other wins than the seventh of
\* the whole standings
C21_Witness ==
    /\ pc = "idle"
    /\ Len(TargetConferenceStandings) >= 7
    /\ TargetConferenceStandings[7].wins # allStandings[7].wins
    /\ \E i \in 1..Len(allGames) :
          /\ WithoutTarget(allGames[i])
          /\ OutsideDivision(allGames[i])
          /\ ListedWithForty(allGames[i])

(***************************************************************************)
(* The weighted home win probability at its edges, under SpecOutcome.      *)
(***************************************************************************)
WeightedPrediction == pc = "getGameOutcome" /\ useWeightedSimulation

SideMissing ==
    \/ ~InStandings(allStandings, call.game.homeTeam)
    \/ ~InStandings(allStandings, call.game.awayTeam)

\* C22: in the weighted mode, when the home or the away club of the game
\* has no entry in the standings, the home win probability used is
\* 0.5 + 0.05.
C22_MissingTeamBonus ==
    (WeightedPrediction /\ SideMissing) => RatCmp(call.homeProb, << 55, 100 >>) = 0

\* a game of a club without an entry was predicted in the weighted mode
C22_Witness ==
    /\ WeightedPrediction
    /\ SideMissing
    /\ RatCmp(call.homeProb, << 1, 2 >>) = 0
    /\ call.outcome = "home"

InUnitInterval(p) == RatCmp(p, << 0, 1 >>) >= 0 /\ RatCmp(p, << 1, 1 >>) <= 0

\* C23: in the weighted mode, for two clubs with entries in the standings
\* and win percentages in [0, 1], the home win probability lies strictly
\* between 0 and 1.
C23_ProbabilityInside ==
    (/\ WeightedPrediction
     /\ ~SideMissing
     /\ InUnitInterval(Find(allStandings, call.game.homeTeam).winPct)
     /\ InUnitInterval(Find(allStandings, call.game.awayTeam).winPct))
        => /\ RatCmp(call.homeProb, << 0, 1 >>) > 0
           /\ RatCmp(call.homeProb, << 1, 1 >>) < 0

\* a game of two clubs with entries was predicted in the weighted mode with
\* a home win probability above 1
C23_Witness ==
    /\ WeightedPrediction
    /\ ~SideMissing
    /\ InUnitInterval(Find(allStandings, call.game.homeTeam).winPct)
    /\ InUnitInterval(Find(allStandings, call.game.awayTeam).winPct)
    /\ RatCmp(call.homeProb, << 1, 1 >>) > 0
    /\ call.outcome = "home"

(***************************************************************************)
(* SpecScenario: simulateScenario (simulation.js 58-128) called with       *)
(* every complete assignment of the critical games, for every target, in   *)
(* the sessions of SpecSim, in the season with Washington and in a week    *)
(* in which a club has no entry.                                           *)
(***************************************************************************)
Assignments == [ Ids(criticalGames) -> {"home", "away"} ]

\* the call returns its result, or throws
Simulated(outcomes, result) ==
    IF result = TypeError
    THEN /\ pc' = "threw"
         /\ call' = [ outcomes |-> outcomes, error |-> "TypeError" ]
         /\ allStandings' = StoredAfter(ScenarioCopies(outcomes))
    ELSE /\ pc' = "simulateScenario"
         /\ call' = [ outcomes |-> outcomes, result |-> result ]
         /\ allStandings' = StoredAfter(result.standings)

SimulateAssigned(outcomes) ==
    /\ pc = "idle"
    /\ Simulated(outcomes, simulateScenario(outcomes))
    /\ UNCHANGED << targetTeam, allGames, criticalGames, userOutcomes, useWeightedSimulation,
                    currentBestCase, currentWorstCase, records >>

NextScenario ==
    \/ FetchRemaining(SessionSeasons, SearchSchedule)
    \/ FetchWashington(WashingtonSchedule)
    \/ FetchWeek
    \/ setAllGames
    \/ conferenceRecordsLoaded
    \/ divisionRecordsLoaded
    \/ commonGamesRecordsLoaded
    \/ headToHeadRecordsLoaded
    \/ fetchRejected
    \/ identifyCriticalGamesHandler
    \/ \E teamAbbr \in Teams : setTargetTeam(teamAbbr)
    \/ \E outcomes \in Assignments : SimulateAssigned(outcomes)
    \/ resetState

SpecScenario == Init /\ [][NextScenario]_vars

ScenarioSimulated == pc = "simulateScenario"

WinnerOf(game, outcome) == IF outcome = "home" THEN game.homeTeam ELSE game.awayTeam

LoserOf(game, outcome) == IF outcome = "home" THEN game.awayTeam ELSE game.homeTeam

\* the critical games the assignment lets the club win, and lose
GamesWon(abbr) ==
    Cardinality({ i \in 1..Len(criticalGames) :
        /\ Has(call.outcomes, criticalGames[i].id)
        /\ WinnerOf(criticalGames[i], call.outcomes[criticalGames[i].id]) = abbr })

GamesLost(abbr) ==
    Cardinality({ i \in 1..Len(criticalGames) :
        /\ Has(call.outcomes, criticalGames[i].id)
        /\ LoserOf(criticalGames[i], call.outcomes[criticalGames[i].id]) = abbr })

\* a critical game one side of which has no entry in the standings
SideWithoutEntry(game) ==
    \/ ~InStandings(allStandings, game.homeTeam)
    \/ ~InStandings(allStandings, game.awayTeam)

\* C24: when a critical game with an assigned outcome names a club without
\* an entry in the standings, that club's update is skipped, the other
\* side's update is applied, and the pass completes: the standings of the
\* result hold the clubs of the standings, each with its wins and losses
\* raised by the games the assignment lets it win and lose.
C24_MissingSideSkipped ==
    (pc \in { "simulateScenario", "threw" } /\ \E g \in Range(criticalGames) : SideWithoutEntry(g)) =>
        /\ ScenarioSimulated
        /\ Len(call.result.standings) = Len(allStandings)
        /\ \A i \in 1..Len(allStandings) :
              /\ call.result.standings[i].abbr = allStandings[i].abbr
              /\ call.result.standings[i].wins
                   = allStandings[i].wins + GamesWon(allStandings[i].abbr)
              /\ call.result.standings[i].losses
                   = allStandings[i].losses + GamesLost(allStandings[i].abbr)

\* a critical game of a club without an entry was given to its other side,
\* which has one and has a win more in the result
C24_Witness ==
    /\ ScenarioSimulated
    /\ \E g \in Range(criticalGames) :
          /\ SideWithoutEntry(g)
          /\ InStandings(allStandings, WinnerOf(g, call.outcomes[g.id]))
          /\ Find(call.result.standings, WinnerOf(g, call.outcomes[g.id])).wins
               > Find(allStandings, WinnerOf(g, call.outcomes[g.id])).wins

(***************************************************************************)
(* Teams no implemented tiebreaker tells apart, under SpecRecords.         *)
(***************************************************************************)
SameConferenceRecord(a, b) ==
    /\ Has(conferenceRecords, a) /\ Has(conferenceRecords, b)
    /\ WL(conferenceRecords[a]) = WL(conferenceRecords[b])

\* two division winners: the conference sort compares the conference
\* records, when both clubs have one
WinnersApart(a, b) ==
    /\ Has(conferenceRecords, a) /\ Has(conferenceRecords, b)
    /\ WL(conferenceRecords[a]) # WL(conferenceRecords[b])

\* two wild card contenders: a head-to-head winner, or a conference record
\* the other has not
ContendersApart(a, b) ==
    \/ WinningRecord(a, b) \/ WinningRecord(b, a)
    \/ (Has(conferenceRecords, a) \/ Has(conferenceRecords, b)) /\ ~SameConferenceRecord(a, b)

DivisionWinners == SelectSeq(call.playoffTeams, LAMBDA t : t.isDivisionWinner)

\* a is before b in the sequence exactly when it is in the standings
KeepsOrder(ranked, a, b) ==
    (RankOf(ranked, a) < RankOf(ranked, b)) <=> (RankOf(allStandings, a) < RankOf(allStandings, b))

WinnersKeepOrder ==
    \A a, b \in { DivisionWinners[i].abbr : i \in 1..Len(DivisionWinners) } :
        (/\ a # b
         /\ RatCmp(Find(allStandings, a).winPct, Find(allStandings, b).winPct) = 0
         /\ ~WinnersApart(a, b))
            => KeepsOrder(DivisionWinners, a, b)

ContendersKeepOrder ==
    \A a, b \in { call.wildCardPool[i].abbr : i \in 1..Len(call.wildCardPool) } :
        (/\ a # b
         /\ RatCmp(Find(allStandings, a).winPct, Find(allStandings, b).winPct) = 0
         /\ ~ContendersApart(a, b))
            => KeepsOrder(call.wildCardPool, a, b)

\* C25: two division winners, or two wild card contenders, of equal win
\* percentage that no implemented tiebreaker tells apart are ranked in the
\* order they have in the standings, and the resolver does not throw.
C25_OrderKeptNoThrow ==
    pc \in {"resolved", "threw"} =>
        /\ pc = "resolved"
        /\ WinnersKeepOrder
        /\ ContendersKeepOrder

\* two division winners of equal win percentage and equal conference
\* record have been seeded, and two such wild card contenders ranked
C25_Witness ==
    /\ pc = "resolved"
    /\ \E a, b \in { DivisionWinners[i].abbr : i \in 1..Len(DivisionWinners) } :
          /\ a # b
          /\ RatCmp(Find(allStandings, a).winPct, Find(allStandings, b).winPct) = 0
          /\ ~WinnersApart(a, b)
    /\ \E a, b \in { call.wildCardPool[i].abbr : i \in 1..Len(call.wildCardPool) } :
          /\ a # b
          /\ RatCmp(Find(allStandings, a).winPct, Find(allStandings, b).winPct) = 0
          /\ ~ContendersApart(a, b)

(***************************************************************************)
(* SpecServer: the record maps the server answers with (server.js 532-722) *)
(* for the rows of its games table, as the client stores them              *)
(* (tiebreakers.js 17-39).                                                 *)
(***************************************************************************)
\* rows of the NFC East: DAL and NYG have both met WSH
WashingtonTable ==
    WashingtonGames \o << [ home |-> "NYG", away |-> "WSH", winner |-> "NYG" ] >>

TableChoices == { << >>, LaterGames, PoolGames, ShortPoolGames, WashingtonTable }

fetchTiebreakRecords ==
    /\ pc = "start"
    /\ \E r \in ResultChoices, later \in TableChoices :
          call' = [ responses |-> ResponsesOf(CompletedGames(r) \o later, << >>),
                    then |-> "fetchTiebreakRecords",
                    next |-> [ games |-> CompletedGames(r) \o later ] ]
    /\ pc' = "conferenceRecords"
    /\ UNCHANGED << session, records >>

NextServer ==
    \/ fetchTiebreakRecords
    \/ conferenceRecordsLoaded
    \/ divisionRecordsLoaded
    \/ commonGamesRecordsLoaded
    \/ headToHeadRecordsLoaded
    \/ fetchRejected

SpecServer == Init /\ [][NextServer]_vars

RecordsFetched == pc = "fetchTiebreakRecords"

\* the rows of the table in which a and b met
Met(a, b) == { i \in 1..Len(call.games) : { call.games[i].home, call.games[i].away } = { a, b } }

\* the clubs other than a and b that both have met
PlayedByBoth(a, b) == { c \in Teams \ { a, b } : Met(a, c) # {} /\ Met(b, c) # {} }

\* the rows of a's games against the clubs both have met
CommonRows(a, b) == UNION { Met(a, c) : c \in PlayedByBoth(a, b) }

CommonRecordRight(a, b) ==
    LET rows == CommonRows(a, b)
        rec == commonGamesRecords[<< a, b >>]
    IN  /\ rec.wins = Cardinality({ i \in rows : call.games[i].winner = a })
        /\ rec.ties = Cardinality({ i \in rows : call.games[i].winner = "" })
        /\ rec.wins + rec.losses + rec.ties = Cardinality(rows)
        /\ RatCmp(rec.winPct, << 2 * rec.wins + rec.ties, 2 * Cardinality(rows) >>) = 0

Mirrored(a, b) ==
    /\ headToHeadRecords[<< a, b >>].wins = headToHeadRecords[<< b, a >>].losses
    /\ headToHeadRecords[<< a, b >>].losses = headToHeadRecords[<< b, a >>].wins
    /\ headToHeadRecords[<< a, b >>].ties = headToHeadRecords[<< b, a >>].ties

\* C26: for two clubs a and b of one division, the common-games record
\* stored for a against b counts exactly a's completed games against the
\* clubs both have met, games between a and b left out, with win
\* percentage (wins + 0.5 * ties) / games; and the two head-to-head records
\* of a pair mirror each other.
C26_CommonGamesCounted ==
    RecordsFetched =>
        \A a, b \in TEAM_INFO :
            a # b =>
                /\ Has(commonGamesRecords, << a, b >>) =>
                      /\ DIVISION_MAP[a] = DIVISION_MAP[b]
                      /\ PlayedByBoth(a, b) # {}
                      /\ CommonRecordRight(a, b)
                /\ (Has(headToHeadRecords, << a, b >>) /\ Has(headToHeadRecords, << b, a >>))
                      /\ Mirrored(a, b)

\* two clubs of a division that have tied each other, have met a club in
\* common and other clubs as well, the first with a win and the second
\* with a loss in their common games
C26_Witness ==
    /\ RecordsFetched
    /\ \E a, b \in Teams :
          /\ Has(commonGamesRecords, << a, b >>)
          /\ headToHeadRecords[<< a, b >>].ties > 0
          /\ commonGamesRecords[<< a, b >>].wins > 0
          /\ commonGamesRecords[<< b, a >>].losses > 0
          /\ \E c \in Teams \ { a, b } : Met(a, c) # {} /\ Met(b, c) = {}

(***************************************************************************)
(* The wild card rank of a ScenarioResult, under SpecScenario.             *)
(***************************************************************************)
TargetEntry == Find(call.result.playoffTeams, targetTeam)

\* C27: the wild card rank of the result agrees with its made-playoffs
\* flag: 0 when the target is a division winner, in 1..3 when it makes the
\* playoffs as a wild card, and at least 4 when it misses the playoffs.
C27_WildcardRankConsistent ==
    ScenarioSimulated =>
        IF call.result.targetMadePlayoffs
        THEN IF TargetEntry.isDivisionWinner
             THEN call.result.targetWildcardRank = 0
             ELSE call.result.targetWildcardRank \in 1..3
        ELSE call.result.targetWildcardRank >= 4

\* the target misses the playoffs with a wild card rank among the first
\* three of the clubs that won no division
C27_Witness ==
    /\ ScenarioSimulated
    /\ ~call.result.targetMadePlayoffs
    /\ call.result.targetWildcardRank \in 1..3

(***************************************************************************)
(* SpecSession: a session of user operations (part_004 456-530), each      *)
(* followed by the calculation pass (playoff-app.js 123-145), in a season  *)
(* without Washington in the table and in the season with it.  The         *)
(* remaining schedule has fewer than maxBruteForce critical games, so the  *)
(* searches of the pass are the exhaustive ones.  call holds the last      *)
(* operation, what it found (the locks and the stored cases) and how its   *)
(* pass has ended.                                                         *)
(***************************************************************************)
\* the clubs the user selects in a session
SessionTeams == { "CHI", "NYG", "CAR", "KC", "WSH" }

\* api.js 101-146: the games still to play in a session
SessionSchedule == SubSeq(SearchSchedule, 1, 4)

\* the operation, with what it finds when it starts; its pass is still to run
Found(op, found) == [ op |-> op, found |-> found, pass |-> "pending" ]

\* playoff-app.js 52-53 of initializeApp
initializeCritical ==
    /\ pc = "identifyCriticalGames"
    /\ criticalGames' = identifyCriticalGames
    /\ allGames' = ScoredGames
    /\ pc' = "renderAppHandler"
    /\ UNCHANGED << targetTeam, allStandings, userOutcomes, useWeightedSimulation,
                    currentBestCase, currentWorstCase, records, call >>

\* playoff-app.js 66, 98-100 of initializeApp; an error thrown there is
\* caught at 71-80
renderAppHandler ==
    /\ pc = "renderAppHandler"
    /\ allStandings' = RenderedStandings
    /\ pc' = IF renderBothStandings.threw THEN "error" ELSE "calculateAndDisplayScenarios"
    /\ UNCHANGED << targetTeam, allGames, criticalGames, userOutcomes, useWeightedSimulation,
                    currentBestCase, currentWorstCase, records, call >>

\* simulation.js 137-171 in the pass: whether runMonteCarloSimulation throws,
\* which it does when the simulation of one of its trials does.  It writes
\* no state
MonteCarloEnds ==
    { simulateScenario(outcomes) = TypeError : outcomes \in TrialOutcomes(userOutcomes) }

\* how the pass ends, for the event handler that has called it
Ended(how) == IF call = Null THEN Null ELSE [ call EXCEPT !.pass = how ]

\* playoff-app.js 125-145: the three calls in their order.  The pass catches
\* nothing: a TypeError thrown in one of them ends it before the cases are
\* stored, so the cases stored before stay.  initializeApp catches the error
\* (71-80); thrown out of an event handler it ends the handler, and the page
\* waits for the next event
PassEnds(threw, best, worst) ==
    IF threw \/ best = TypeError \/ worst = TypeError
    THEN /\ pc' = IF call = Null THEN "error" ELSE "idle"
         /\ call' = Ended("TypeError")
         /\ UNCHANGED << currentBestCase, currentWorstCase >>
    ELSE /\ pc' = "idle"
         /\ call' = Ended("returned")
         /\ currentBestCase' = best
         /\ currentWorstCase' = worst

\* playoff-app.js 123-145
calculateAndDisplayScenarios ==
    /\ pc = "calculateAndDisplayScenarios"
    /\ \E threw \in MonteCarloEnds, best \in findBestCaseScenario,
             worst \in findWorstCaseScenario :
          PassEnds(threw, best, worst)
    /\ UNCHANGED << targetTeam, allStandings, allGames, criticalGames, userOutcomes,
                    useWeightedSimulation, records >>

\* part_004 456-469, from an outcome button or the reset button of a
\* critical game
setOutcomeHandler(gameId, outcome) ==
    /\ pc = "idle"
    /\ gameId \in Ids(criticalGames)
    /\ userOutcomes' = IF outcome = "reset" THEN Removed(userOutcomes, gameId)
                       ELSE Assigned(userOutcomes, gameId :> outcome)
    /\ call' = Found("setOutcomeHandler",
                     [ gameId |-> gameId,
                       best |-> IF Has(currentBestCase.outcomes, gameId)
                                THEN currentBestCase.outcomes[gameId] ELSE Null,
                       worst |-> IF Has(currentWorstCase.outcomes, gameId)
                                 THEN currentWorstCase.outcomes[gameId] ELSE Null ])
    /\ pc' = "calculateAndDisplayScenarios"
    /\ UNCHANGED << targetTeam, allStandings, allGames, criticalGames, useWeightedSimulation,
                    currentBestCase, currentWorstCase, records >>

\* part_004 484-488
clearAllOutcomesHandler ==
    /\ pc = "idle"
    /\ userOutcomes' = clearUserOutcomes
    /\ call' = Found("clearAllOutcomesHandler", Cardinality(DOMAIN userOutcomes))
    /\ pc' = "calculateAndDisplayScenarios"
    /\ UNCHANGED << targetTeam, allStandings, allGames, criticalGames, useWeightedSimulation,
                    currentBestCase, currentWorstCase, records >>

\* part_004 493-502
toggleSimulationMode(weighted) ==
    /\ pc = "idle"
    /\ useWeightedSimulation' = weighted
    /\ call' = Found("toggleSimulationMode", useWeightedSimulation)
    /\ pc' = "calculateAndDisplayScenarios"
    /\ UNCHANGED << targetTeam, allStandings, allGames, criticalGames, userOutcomes,
                    currentBestCase, currentWorstCase, records >>

\* state.js 401-403, called with { ...scenario.outcomes }
setUserOutcomes(outcomes) == outcomes

\* part_004 507-530: applyBestCaseHandler, applyWorstCaseHandler
applyCaseHandler(kind) ==
    /\ pc = "idle"
    /\ LET scenario == IF kind = "best" THEN currentBestCase ELSE currentWorstCase
       IN  /\ scenario # Null
           /\ userOutcomes' = setUserOutcomes(scenario.outcomes)
    /\ call' = Found(kind, [ userOutcomes |-> userOutcomes,
                              scenario |-> IF kind = "best" THEN currentBestCase
                                           ELSE currentWorstCase ])
    /\ pc' = "calculateAndDisplayScenarios"
    /\ UNCHANGED << targetTeam, allStandings, allGames, criticalGames, useWeightedSimulation,
                    currentBestCase, currentWorstCase, records >>

NextSession ==
    \/ FetchRemaining({ HomeWins }, SessionSchedule)
    \/ FetchWashington(WashingtonSchedule)
    \/ setAllGames
    \/ conferenceRecordsLoaded
    \/ divisionRecordsLoaded
    \/ commonGamesRecordsLoaded
    \/ headToHeadRecordsLoaded
    \/ fetchRejected
    \/ initializeCritical
    \/ renderAppHandler
    \/ calculateAndDisplayScenarios
    \/ \E gameId \in Ids(SessionSchedule), outcome \in {"home", "away", "reset"} :
          setOutcomeHandler(gameId, outcome)
    \/ clearAllOutcomesHandler
    \/ \E weighted \in BOOLEAN : toggleSimulationMode(weighted)
    \/ \E teamAbbr \in SessionTeams : selectTeamHandler(teamAbbr)
    \/ onIdentifyCritical
    \/ onRenderApp
    \/ onCalculateScenarios
    \/ \E kind \in {"best", "worst"} : applyCaseHandler(kind)
    \/ resetState

SpecSession == Init /\ [][NextSession]_vars

\* C15: when a team is selected, all locks are cleared and the critical games
\* are those of the new target before the calculation pass runs; no pass is
\* entered with critical games other than those of its target, or with a
\* lock on a game that is not one of them (a lock left from another target).
C15_SelectClears ==
    pc = "calculateAndDisplayScenarios" =>
        /\ criticalGames = identifyCriticalGames
        /\ DOMAIN userOutcomes \subseteq Ids(criticalGames)
        /\ \A i \in 1..Len(allGames) :
              targetTeam \in { allGames[i].homeTeam, allGames[i].awayTeam } =>
                  allGames[i].id \in Ids(criticalGames)
        /\ Has(call, "teamAbbr") =>
              /\ targetTeam = call.teamAbbr
              /\ userOutcomes = << >>

\* the pass is entered for a different target than the one the handler
\* found, which had two locks and other critical games
C15_Witness ==
    /\ pc = "calculateAndDisplayScenarios"
    /\ Has(call, "teamAbbr")
    /\ call.found.targetTeam # targetTeam
    /\ Cardinality(DOMAIN call.found.userOutcomes) = 2
    /\ call.found.criticalGames # Ids(criticalGames)
    /\ Ids(criticalGames) # {}

SessionIdle == pc = "idle"

\* the pass that follows the operation has run
After(op) == SessionIdle /\ Has(call, "op") /\ call.op = op

\* the scenario gives every critical game an outcome, and every locked
\* critical game the outcome it is locked to
FromLocks(scenario) ==
    /\ scenario # Null
    /\ \A i \in 1..Len(criticalGames) :
          /\ Has(scenario.outcomes, criticalGames[i].id)
          /\ scenario.outcomes[criticalGames[i].id] \in {"home", "away"}
          /\ Has(userOutcomes, criticalGames[i].id) =>
                scenario.outcomes[criticalGames[i].id] = userOutcomes[criticalGames[i].id]

\* C28: after every user operation and its recalculation, the stored best
\* case and worst case are the ones the searches find for the current
\* target, critical games and locks: they agree with the lock of every
\* locked critical game and assign every critical game.
C28_CasesCurrent ==
    SessionIdle =>
        /\ FromLocks(currentBestCase)
        /\ FromLocks(currentWorstCase)
        /\ currentBestCase \in findBestCaseScenario
        /\ currentWorstCase \in findWorstCaseScenario

\* an outcome was set against the best case stored before, for a target
\* selected in the session, and the pass has run
C28_Witness ==
    /\ After("setOutcomeHandler")
    /\ targetTeam # "CHI"
    /\ Has(userOutcomes, call.found.gameId)
    /\ call.found.best # userOutcomes[call.found.gameId]
    /\ currentBestCase.outcomes[call.found.gameId] = userOutcomes[call.found.gameId]

Applied == After("best") \/ After("worst")

SameOutcome(a, b) ==
    /\ a.targetMadePlayoffs = b.targetMadePlayoffs
    /\ a.targetSeed = b.targetSeed

\* C29: applying the stored best case or worst case replaces the locks by
\* that complete assignment: every lock found keeps its value, every
\* critical game is locked, and the pass that follows stores a best case and
\* a worst case with the made-playoffs flag and the seed of the scenario
\* applied.
C29_AppliedCaseKept ==
    Applied =>
        /\ userOutcomes = call.found.scenario.outcomes
        /\ \A id \in DOMAIN call.found.userOutcomes :
              Has(userOutcomes, id) /\ userOutcomes[id] = call.found.userOutcomes[id]
        /\ \A i \in 1..Len(criticalGames) : Has(userOutcomes, criticalGames[i].id)
        /\ SameOutcome(currentBestCase.result, currentWorstCase.result)
        /\ SameOutcome(currentBestCase.result, call.found.scenario.result)

\* the best case was applied over one lock with other critical games
\* undecided, and the worst case stored afterwards makes the playoffs with
\* a seed
C29_Witness ==
    /\ After("best")
    /\ Cardinality(DOMAIN call.found.userOutcomes) = 1
    /\ Len(criticalGames) > 2
    /\ currentWorstCase.result.targetMadePlayoffs
    /\ currentWorstCase.result.targetSeed \in 1..7

(***************************************************************************)
(* breakTieMultiTeam as a permutation, under SpecWildCard.                 *)
(***************************************************************************)
\* every team of the group is in the result exactly once, and the result
\* has no other team
Permutes(result, group) ==
    /\ Len(result) = Len(group)
    /\ \A i \in 1..Len(group) :
          Cardinality({ j \in 1..Len(result) : result[j].abbr = group[i].abbr }) = 1

\* C30: breakTieMultiTeam returns, for every group of consecutive teams of
\* the sorted wild card pool, a permutation of the group, and the pool with
\* its tied groups resolved is a permutation of the sorted pool: no team is
\* dropped or duplicated.
C30_TieBreakPermutes ==
    PoolResolved =>
        /\ Permutes(call.wildCardPool, call.sortedPool)
        /\ \A from \in 1..Len(call.sortedPool) : \A to \in from..Len(call.sortedPool) :
              Permutes(breakTieMultiTeam(SubSeq(call.sortedPool, from, to), "wildcard"),
                       SubSeq(call.sortedPool, from, to))

\* a tied group of three or more was resolved, and a team that is not the
\* first of its remaining teams was emitted
C30_Witness ==
    /\ PoolResolved
    /\ \E p \in 1..Len(call.wildCardPool) :
          /\ Len(Remainder(p)) >= 3
          /\ Remainder(p)[1].abbr # call.wildCardPool[p].abbr

====
